---- MODULE Spec2Model ----
(***************************************************************************)
(* Model of the appjs widget registry (WidgetManager), the widget creation *)
(* path and the command channel between the script thread and the UI       *)
(* thread.                                                                 *)
(***************************************************************************)
EXTENDS Integers, Sequences, FiniteSets, TLC

VARIABLES
    widget_manager,   \* ui::WidgetManager {widgets, parent_to_children}
    next_widget_id,   \* masonry WidgetId counter (NewWidget::new_with allocates)
    crashed,          \* the UI thread aborted (unbounded recursion)
    last,             \* the last operation applied and its outcome
    assigned,         \* child_index values handed to registered creates, per parent key
    removed_any,      \* a remove_widget_subtree call has removed something
    steps,            \* number of operations applied so far
    legacy_manager,   \* ui_thread::WidgetManager {widgets, child_counts}
    sent,             \* commands the script thread has sent successfully, in order
    command_queue,    \* commands in flight on the command channel
    dispatched,       \* commands handed to handle_command, in order
    next_command,     \* serial number of the next command the script issues
    driver,           \* which AppJsDriver runs: "polling" (mpsc) or "proxy" (EventLoopProxy)
    ui_pc,            \* position of the UI thread inside on_action
    event_queue,      \* events in flight on the event channel
    sender_alive,     \* the script thread runs: it holds the command sender and the event receiver
    receiver_alive,   \* the UI thread runs: it holds the command receiver and the event sender
    send_result,      \* what the script's last send_command returned
    recv_result,      \* what the last try_recv in process_js_commands returned
    pending,          \* the (widget_id, action) on_action is handling
    action_count,     \* number of widget actions the user has caused
    produced,         \* events the UI thread has enqueued successfully, in order
    calls,            \* the op_wait_for_event calls: state and result of each
    mutex,            \* holder of the SharedEventReceiver mutex
    returned,         \* events returned to the script, in the order the calls returned
    delivered,        \* events _dispatch handed to the listeners, in order
    listeners,        \* number of callbacks registered with events.on
    loop_running,     \* _eventLoopRunning
    overlapped,       \* two op_wait_for_event calls have been outstanding at once
    serializer,       \* which serialize_event is in use: ipc_ops.rs or event_serializer.rs
    ui_event,         \* the UiEvent handed to serialize_event
    json,             \* the text serialize_event returned
    parsed,           \* what JSON.parse made of the text
    escaped,          \* what escape_json_string made of the event's string field
    args,             \* std::env::args() of the process
    files,            \* the canonical paths that exist in the file system
    main_pc,          \* position of the main thread inside main()
    absolute_path,    \* main's absolute_path once canonicalize returned Ok
    stderr,           \* the diagnostics main has printed with eprintln!
    exit_status,      \* the status the process ended with, once it has
    started,          \* what main has set up: channels, script thread, UI
    _listeners,       \* runtime.js _listeners: event type -> callbacks in registration order
    _eventLoopRunning, \* runtime.js _eventLoopRunning
    unsubscribes,     \* the functions events.on has returned, in order: what each captured
    called,           \* which of them the script has called
    invoked,          \* the callbacks the last _dispatch invoked, in order
    console_error,    \* how many errors the last _dispatch logged
    emitted,          \* the last call into the event emitter
    loops,            \* how many _startEventLoop activations await op_wait_for_event
    hoverable,        \* a Hoverable {self_hovered, child_hovered, effective_hovered}
    submitted,        \* the HoverActions it has submitted, in order
    updates,          \* number of Update events it has been given
    color_string,     \* the string handed to ColorValue::parse
    color,            \* what ColorValue::parse made of it
    deserialized      \* what ColorValue::deserialize made of it

vars == <<widget_manager, next_widget_id, crashed, last, assigned, removed_any,
          steps, legacy_manager, sent, command_queue, dispatched, next_command,
          driver, ui_pc, event_queue, sender_alive, receiver_alive,
          send_result, recv_result, pending, action_count, produced, calls,
          mutex, returned, delivered, listeners, loop_running, overlapped,
          serializer, ui_event, json, parsed, escaped,
          args, files, main_pc, absolute_path, stderr, exit_status, started,
          _listeners, _eventLoopRunning, unsubscribes, called, invoked,
          console_error, emitted, loops,
          hoverable, submitted, updates, color_string, color, deserialized>>

registry_vars == <<widget_manager, next_widget_id, crashed, last, assigned,
                   removed_any, steps>>
legacy_vars == <<legacy_manager>>
command_vars == <<sent, command_queue, dispatched, next_command, send_result,
                  recv_result>>
ui_vars == <<ui_pc, pending, action_count>>
event_vars == <<event_queue, produced>>
script_vars == <<calls, mutex, returned, delivered, listeners, loop_running,
                 overlapped>>
life_vars == <<driver, sender_alive, receiver_alive>>
channel_vars == <<command_vars, ui_vars, event_vars, script_vars, life_vars>>
serializer_vars == <<serializer, ui_event, json, parsed, escaped>>
startup_vars == <<args, files, main_pc, absolute_path, stderr, exit_status, started>>
emitter_vars == <<_listeners, _eventLoopRunning, unsubscribes, called, invoked,
                  console_error, emitted, loops>>
hover_vars == <<hoverable, submitted, updates>>
color_vars == <<color_string, color, deserialized>>

-----------------------------------------------------------------------------
(* Bounds *)

MaxSteps == 4
MaxCommands == 3
MaxActions == 2
MaxListeners == 2
MaxLen == 2
MaxIdLen == 1
MaxNumber == 12

(* Native widget handles the user can act on *)
NativeHandles == 1..2

(* Script-chosen widget ids, widget kinds *)
Ids == {"a", "b", "c"}
Kinds == {"Flex", "Label"}

ROOT == "__root__"
None == "None"
ParentIds == Ids \cup {None}

-----------------------------------------------------------------------------
(* HashMap helpers *)

EmptyMap == [k \in {} |-> 0]
MapInsert(m, k, v) == [x \in (DOMAIN m) \cup {k} |-> IF x = k THEN v ELSE m[x]]
MapRemove(m, k) == [x \in (DOMAIN m) \ {k} |-> m[x]]
MapRemoveAll(m, ks) == [x \in (DOMAIN m) \ ks |-> m[x]]
Range(s) == {s[i] : i \in 1..Len(s)}

RECURSIVE Retain(_, _)
Retain(s, id) ==
    IF s = <<>> THEN <<>>
    ELSE IF Head(s) = id THEN Retain(Tail(s), id)
         ELSE <<Head(s)>> \o Retain(Tail(s), id)

-----------------------------------------------------------------------------
(* ui::WidgetManager *)

WidgetInfo_shared_handle(widget_id, kind, parent_id, child_index) ==
    [widget_id |-> 1, kind |-> kind, parent_id |-> parent_id,
     child_index |-> child_index]

WidgetInfo(widget_id, kind, parent_id, child_index) ==
    [widget_id |-> widget_id, kind |-> kind, parent_id |-> parent_id,
     child_index |-> child_index]

parent_key_of(parent_id) == IF parent_id = None THEN ROOT ELSE parent_id

new == [widgets |-> EmptyMap, parent_to_children |-> MapInsert(EmptyMap, ROOT, <<>>)]

register_widget_first(m, id, info) ==
    LET parent_key == parent_key_of(info.parent_id)
        pc0 == m.parent_to_children
        siblings == IF parent_key \in DOMAIN pc0 THEN pc0[parent_key] ELSE <<>>
        pc1 == MapInsert(pc0, parent_key, <<id>> \o siblings)
        pc2 == IF id \in DOMAIN pc1 THEN pc1 ELSE MapInsert(pc1, id, <<>>)
    IN [widgets |-> MapInsert(m.widgets, id, info), parent_to_children |-> pc2]

register_widget(m, id, info) ==
    LET parent_key == parent_key_of(info.parent_id)
        pc0 == m.parent_to_children
        siblings == IF parent_key \in DOMAIN pc0 THEN pc0[parent_key] ELSE <<>>
        pc1 == MapInsert(pc0, parent_key, Append(siblings, id))
        pc2 == IF id \in DOMAIN pc1 THEN pc1 ELSE MapInsert(pc1, id, <<>>)
    IN [widgets |-> MapInsert(m.widgets, id, info), parent_to_children |-> pc2]

current_child_count(m, parent_key) ==
    IF parent_key \in DOMAIN m.parent_to_children
    THEN Len(m.parent_to_children[parent_key])
    ELSE 0

next_child_index_first(m, parent_key) == 0

next_child_index(m, parent_key) == current_child_count(m, parent_key)

(* The child-list graph: the ids a depth-first walk from a key visits. *)
Children(pc, key) == IF key \in DOMAIN pc THEN Range(pc[key]) ELSE {}

RECURSIVE Closure(_, _)
Closure(pc, S) ==
    LET T == S \cup UNION {Children(pc, n) : n \in S}
    IN IF T = S THEN S ELSE Closure(pc, T)

(* collect_descendants recurses for ever iff a cycle of child lists is
   reachable from the key it starts at. *)
collect_descendants_diverges(pc, parent_id) ==
    \E n \in Closure(pc, {parent_id}) : n \in Closure(pc, Children(pc, n))

RECURSIVE collect_descendants(_, _), collect_each(_, _)
collect_descendants(pc, parent_id) ==
    IF parent_id \in DOMAIN pc THEN collect_each(pc, pc[parent_id]) ELSE <<>>
collect_each(pc, children) ==
    IF children = <<>> THEN <<>>
    ELSE <<Head(children)>> \o collect_descendants(pc, Head(children))
                            \o collect_each(pc, Tail(children))

LastPosition(s, id) == CHOOSE i \in 1..Len(s) : s[i] = id /\ \A j \in (i+1)..Len(s) : s[j] # id

recompute_parent_state(m, parent_key) ==
    IF parent_key \in DOMAIN m.parent_to_children
    THEN LET children == m.parent_to_children[parent_key]
         IN [m EXCEPT !.widgets =
                [id \in DOMAIN m.widgets |->
                    IF id \in Range(children)
                    THEN [m.widgets[id] EXCEPT !.child_index = LastPosition(children, id) - 1]
                    ELSE m.widgets[id]]]
    ELSE m

(* remove_widget_subtree past the lookup: id is registered.  When the
   descendant walk does not return the thread is lost; the manager is then
   reported as it was before the call. *)
remove_registered(m, id) ==
    LET removed == m.widgets[id]
        parent_key == parent_key_of(removed.parent_id)
        w1 == MapRemove(m.widgets, id)
        pc0 == m.parent_to_children
        pc1 == IF parent_key \in DOMAIN pc0
               THEN [pc0 EXCEPT ![parent_key] = Retain(pc0[parent_key], id)]
               ELSE pc0
    IN IF collect_descendants_diverges(pc1, id)
       THEN [manager |-> m, removed |-> <<removed>>, diverges |-> TRUE]
       ELSE LET descendants == Range(collect_descendants(pc1, id))
                w2 == MapRemoveAll(w1, descendants)
                pc2 == MapRemoveAll(pc1, descendants)
                pc3 == MapRemove(pc2, id)
            IN [manager |-> recompute_parent_state(
                               [widgets |-> w2, parent_to_children |-> pc3],
                               parent_key),
                removed |-> <<removed>>, diverges |-> FALSE]

(* A removal that treats a missing record as a child of the root. *)
remove_widget_subtree_no_lookup(m, id) ==
    IF id \notin DOMAIN m.widgets
    THEN [manager |-> [m EXCEPT !.parent_to_children =
                          [k \in DOMAIN m.parent_to_children |->
                              IF k = ROOT THEN Retain(m.parent_to_children[k], id)
                              ELSE m.parent_to_children[k]]],
          removed |-> <<>>, diverges |-> FALSE]
    ELSE remove_registered(m, id)

(* remove_widget_subtree: the manager after the call, the returned record
   (Option: <<>> is None, <<info>> is Some(info)) and whether the descendant
   walk fails to return. *)
remove_widget_subtree(m, id) ==
    IF id \notin DOMAIN m.widgets
    THEN [manager |-> m, removed |-> <<>>, diverges |-> FALSE]
    ELSE remove_registered(m, id)

-----------------------------------------------------------------------------
(* Widget creation *)

(* utils::add_to_parent: the insertion into the rendering tree.  Without a
   parent_id the widget goes under the root Flex; an unknown parent_id is
   reported as a failure; for a registered parent the rendering engine
   decides (inserted). *)
add_to_parent(m, parent_id, inserted) ==
    IF parent_id = None THEN TRUE
    ELSE IF parent_id \in DOMAIN m.widgets THEN inserted
    ELSE FALSE

create_unchecked(m, id, kind, parent_id, child_index, widget_id, added) ==
    register_widget(m, id, WidgetInfo(widget_id, kind, parent_id, child_index))

(* widgets::<kind>::create from the point where the native widget is built. *)
create(m, id, kind, parent_id, child_index, widget_id, added) ==
    IF added
    THEN register_widget(m, id, WidgetInfo(widget_id, kind, parent_id, child_index))
    ELSE m

NoOp == [op |-> "none", id |-> None, parent_id |-> None, kind |-> None,
         child_index |-> 0, added |-> FALSE, found |-> FALSE, widget_id |-> 0]

create_and_add_widget(id, kind, parent_id, inserted) ==
    /\ ~crashed
    /\ steps < MaxSteps
    /\ LET parent_key == parent_key_of(parent_id)
           child_index == next_child_index(widget_manager, parent_key)
           widget_id == next_widget_id
           added == add_to_parent(widget_manager, parent_id, inserted)
       IN /\ widget_manager' = create(widget_manager, id, kind, parent_id,
                                      child_index, widget_id, added)
          /\ next_widget_id' = next_widget_id + 1
          /\ last' = [op |-> "create", id |-> id, parent_id |-> parent_id,
                      kind |-> kind, child_index |-> child_index,
                      added |-> added, found |-> id \in DOMAIN widget_manager.widgets,
                      widget_id |-> widget_id]
          /\ assigned' = IF added /\ ~removed_any
                         THEN MapInsert(assigned, parent_key,
                                 Append(IF parent_key \in DOMAIN assigned
                                        THEN assigned[parent_key] ELSE <<>>,
                                        child_index))
                         ELSE assigned
    /\ steps' = steps + 1
    /\ UNCHANGED <<crashed, removed_any>>
    /\ UNCHANGED legacy_vars
    /\ UNCHANGED serializer_vars
    /\ UNCHANGED channel_vars
    /\ UNCHANGED startup_vars
    /\ UNCHANGED emitter_vars
    /\ UNCHANGED hover_vars
    /\ UNCHANGED color_vars

(* RemoveWidget: the dispatcher calls remove_widget_subtree. *)
remove_widget(id) ==
    /\ ~crashed
    /\ steps < MaxSteps
    /\ LET r == remove_widget_subtree(widget_manager, id)
       IN /\ widget_manager' = r.manager
          /\ crashed' = r.diverges
          /\ last' = [op |-> "remove", id |-> id, parent_id |-> None,
                      kind |-> None, child_index |-> 0, added |-> FALSE,
                      found |-> r.removed # <<>>,
                      widget_id |-> IF r.removed # <<>>
                                    THEN r.removed[1].widget_id ELSE 0]
          /\ removed_any' = (removed_any \/ r.removed # <<>>)
          /\ assigned' = IF r.removed # <<>> THEN EmptyMap ELSE assigned
    /\ steps' = steps + 1
    /\ UNCHANGED next_widget_id
    /\ UNCHANGED legacy_vars
    /\ UNCHANGED serializer_vars
    /\ UNCHANGED channel_vars
    /\ UNCHANGED startup_vars
    /\ UNCHANGED emitter_vars
    /\ UNCHANGED hover_vars
    /\ UNCHANGED color_vars

-----------------------------------------------------------------------------
(* ui_thread::WidgetManager (the counter-based manager) *)

legacy_new == [widgets |-> EmptyMap, child_counts |-> MapInsert(EmptyMap, ROOT, 0)]

(* next_child_index(&mut self): returns the counter and bumps it, creating
   the counter when the key has none. *)
legacy_next_child_index(m, parent_key) ==
    LET count == IF parent_key \in DOMAIN m.child_counts
                 THEN m.child_counts[parent_key] ELSE 0
    IN [manager |-> [m EXCEPT !.child_counts = MapInsert(m.child_counts, parent_key, count + 1)],
        idx |-> count]

(* Kinds whose create initialises a child counter (flex, grid, button). *)
ContainerKinds == {"Flex", "Container", "Grid", "Button"}

(* The kind each ui_thread create writes into the record: grid::create
   writes Flex, flex::create and custom::create write the kind they were
   passed, the others write their own kind. *)
recorded_kind(kind) ==
    CASE kind = "Grid" -> "Flex"
      [] kind = "Button" -> "Button"
      [] kind = "IconButton" -> "IconButton"
      [] kind = "Image" -> "Image"
      [] kind = "Svg" -> "Svg"
      [] OTHER -> kind

legacy_create(m, id, kind, parent_id, child_index, widget_id, added) ==
    IF added
    THEN [widgets |-> MapInsert(m.widgets, id,
                                WidgetInfo(widget_id, recorded_kind(kind),
                                           parent_id, child_index)),
          child_counts |-> IF kind \in ContainerKinds
                           THEN MapInsert(m.child_counts, id, 0)
                           ELSE m.child_counts]
    ELSE m

(* WidgetKind::Custom(name), as its Debug rendering *)
Custom(name) == "Custom(" \o name \o ")"

(* Kind names a script may pass to op_create_widget: names the op knows,
   the name of a kind the op does not list, and a name of no kind. *)
KnownNames == {"Label", "flex"}
KindNames == KnownNames \cup {"Slider", "gauge"}

widget_kind_known_only(name) ==
    CASE name \in {"Label", "label"} -> "Label"
      [] name \in {"Button", "button"} -> "Button"
      [] name \in {"TextInput", "textInput", "text_input"} -> "TextInput"
      [] name \in {"TextArea", "textArea", "text_area"} -> "TextArea"
      [] name \in {"Container", "container"} -> "Container"
      [] name \in {"Flex", "flex"} -> "Flex"
      [] OTHER -> "Label"

(* The match of op_create_widget on the kind name. *)
widget_kind(name) ==
    CASE name \in {"Label", "label"} -> "Label"
      [] name \in {"Button", "button"} -> "Button"
      [] name \in {"TextInput", "textInput", "text_input"} -> "TextInput"
      [] name \in {"TextArea", "textArea", "text_area"} -> "TextArea"
      [] name \in {"Container", "container"} -> "Container"
      [] name \in {"Flex", "flex"} -> "Flex"
      [] OTHER -> Custom(name)

(* What a CreateWidget carries for an image or an SVG: usable data, data
   that does not decode, or nothing. *)
Payloads == {"valid", "undecodable", "missing"}

(* Whether the widget's create gets as far as add_to_parent.  image::create
   returns early without image data or when the data does not decode;
   svg::create does nothing without an SVG text; icon_button::create falls
   back to a text button; every other create builds its widget. *)
builds(kind, payload) ==
    CASE kind = "Image" -> payload = "valid"
      [] kind = "Svg" -> payload # "missing"
      [] OTHER -> TRUE

(* The creation dispatch of create_and_add_widget run against the
   counter-based manager: the index is drawn before the widget's create,
   which receives it as a parameter. *)
legacy_create_widget(id, kind, parent_id, inserted, payload) ==
    /\ steps < MaxSteps
    /\ LET parent_key == parent_key_of(parent_id)
           r == legacy_next_child_index(legacy_manager, parent_key)
           widget_id == next_widget_id
           added == /\ builds(kind, payload)
                    /\ add_to_parent(r.manager, parent_id, inserted)
       IN /\ legacy_manager' = legacy_create(r.manager, id, kind, parent_id,
                                             r.idx, widget_id, added)
          /\ next_widget_id' = next_widget_id + 1
          /\ last' = [op |-> "create", id |-> id, parent_id |-> parent_id,
                      kind |-> kind, child_index |-> r.idx,
                      added |-> added, found |-> id \in DOMAIN legacy_manager.widgets,
                      widget_id |-> widget_id,
                      insertable |-> add_to_parent(r.manager, parent_id, inserted)]
    /\ steps' = steps + 1
    /\ UNCHANGED <<widget_manager, crashed, assigned, removed_any>>
    /\ UNCHANGED channel_vars
    /\ UNCHANGED serializer_vars
    /\ UNCHANGED startup_vars
    /\ UNCHANGED emitter_vars
    /\ UNCHANGED hover_vars
    /\ UNCHANGED color_vars

-----------------------------------------------------------------------------
(* The command channel, the event channel and the two drivers *)

send_unchecked(queue, cmd, consumer_alive) ==
    [queue |-> Append(queue, cmd), ok |-> TRUE]

send_bounded(queue, cmd, consumer_alive) ==
    IF consumer_alive /\ Len(queue) < 2
    THEN [queue |-> Append(queue, cmd), ok |-> TRUE]
    ELSE [queue |-> queue, ok |-> FALSE]

(* Sender::send / ClientCommandSender::send: Ok appends to the queue; with
   the consuming end gone the send fails and nothing is enqueued. *)
send(queue, cmd, consumer_alive) ==
    IF consumer_alive
    THEN [queue |-> Append(queue, cmd), ok |-> TRUE]
    ELSE [queue |-> queue, ok |-> FALSE]

try_recv_leaves_last(queue, producer_alive) ==
    IF Len(queue) >= 2
    THEN [result |-> "Ok", value |-> <<Head(queue)>>, queue |-> Tail(queue)]
    ELSE [result |-> IF producer_alive THEN "Empty" ELSE "Disconnected",
          value |-> <<>>, queue |-> queue]

try_recv_disconnect_first(queue, producer_alive) ==
    IF ~producer_alive
    THEN [result |-> "Disconnected", value |-> <<>>, queue |-> queue]
    ELSE IF queue # <<>>
         THEN [result |-> "Ok", value |-> <<Head(queue)>>, queue |-> Tail(queue)]
         ELSE [result |-> "Empty", value |-> <<>>, queue |-> queue]

try_recv_peek(queue, producer_alive) ==
    IF queue # <<>>
    THEN [result |-> "Ok", value |-> <<Head(queue)>>, queue |-> queue]
    ELSE [result |-> IF producer_alive THEN "Empty" ELSE "Disconnected",
          value |-> <<>>, queue |-> queue]

try_recv_never_disconnected(queue, producer_alive) ==
    IF queue # <<>>
    THEN [result |-> "Ok", value |-> <<Head(queue)>>, queue |-> Tail(queue)]
    ELSE [result |-> "Empty", value |-> <<>>, queue |-> queue]

(* Receiver::try_recv *)
try_recv(queue, producer_alive) ==
    IF queue # <<>>
    THEN [result |-> "Ok", value |-> <<Head(queue)>>, queue |-> Tail(queue)]
    ELSE [result |-> IF producer_alive THEN "Empty" ELSE "Disconnected",
          value |-> <<>>, queue |-> queue]

recv_newest(queue, producer_alive) ==
    IF queue # <<>>
    THEN [result |-> "Ok", value |-> <<queue[Len(queue)]>>,
          queue |-> SubSeq(queue, 1, Len(queue) - 1)]
    ELSE [result |-> IF producer_alive THEN "Blocked" ELSE "Err",
          value |-> <<>>, queue |-> queue]

recv_never_disconnected(queue, producer_alive) ==
    IF queue # <<>>
    THEN [result |-> "Ok", value |-> <<Head(queue)>>, queue |-> Tail(queue)]
    ELSE [result |-> "Blocked", value |-> <<>>, queue |-> queue]

(* Receiver::recv: the oldest buffered message; Err once the queue is empty
   and the sender is gone; otherwise the caller stays blocked. *)
recv(queue, producer_alive) ==
    IF queue # <<>>
    THEN [result |-> "Ok", value |-> <<Head(queue)>>, queue |-> Tail(queue)]
    ELSE [result |-> IF producer_alive THEN "Blocked" ELSE "Err",
          value |-> <<>>, queue |-> queue]

(* The Debug rendering of a masonry WidgetId. *)
Debug(widget_id) == "WidgetId(" \o ToString(widget_id) \o ")"

(* UiEvent::WidgetAction { widget_id, action: Click }; n is the serial
   number of the event among those the UI thread produced. *)
WidgetAction(n, widget_id) ==
    [n |-> n, type |-> "widgetAction", widget_id |-> widget_id, action |-> "Click"]

AppExit == [type |-> "appExit"]

(* {"type":"disconnected"} *)
Disconnected == [type |-> "disconnected"]

(* The script thread issues its next command (send_command). *)
send_command ==
    /\ sender_alive
    /\ next_command <= MaxCommands
    /\ LET r == send(command_queue, next_command, receiver_alive)
       IN /\ command_queue' = r.queue
          /\ sent' = IF r.ok THEN Append(sent, next_command) ELSE sent
          /\ send_result' = IF r.ok THEN "Ok" ELSE "Err"
    /\ next_command' = next_command + 1
    /\ UNCHANGED <<dispatched, recv_result>>
    /\ UNCHANGED <<ui_vars, event_vars, script_vars, life_vars>>
    /\ UNCHANGED registry_vars
    /\ UNCHANGED legacy_vars
    /\ UNCHANGED serializer_vars
    /\ UNCHANGED startup_vars
    /\ UNCHANGED emitter_vars
    /\ UNCHANGED hover_vars
    /\ UNCHANGED color_vars

(* Polling driver: a widget action enters on_action. *)
on_action(widget_id, press) ==
    /\ driver = "polling"
    /\ receiver_alive
    /\ ui_pc = "idle"
    /\ action_count < MaxActions
    /\ action_count' = action_count + 1
    /\ pending' = [widget_id |-> widget_id, press |-> press]
    /\ ui_pc' = "process_js_commands"
    /\ UNCHANGED <<command_vars, event_vars, script_vars, life_vars>>
    /\ UNCHANGED registry_vars
    /\ UNCHANGED legacy_vars
    /\ UNCHANGED serializer_vars
    /\ UNCHANGED startup_vars
    /\ UNCHANGED emitter_vars
    /\ UNCHANGED hover_vars
    /\ UNCHANGED color_vars

(* One iteration of the loop in process_js_commands. *)
process_js_commands ==
    /\ ui_pc = "process_js_commands"
    /\ LET r == try_recv(command_queue, sender_alive)
       IN /\ command_queue' = r.queue
          /\ dispatched' = dispatched \o r.value
          /\ recv_result' = r.result
          /\ ui_pc' = IF r.result = "Ok" THEN "process_js_commands" ELSE "send_event"
    /\ UNCHANGED <<sent, next_command, send_result, pending, action_count>>
    /\ UNCHANGED <<event_vars, script_vars, life_vars>>
    /\ UNCHANGED registry_vars
    /\ UNCHANGED legacy_vars
    /\ UNCHANGED serializer_vars
    /\ UNCHANGED startup_vars
    /\ UNCHANGED emitter_vars
    /\ UNCHANGED hover_vars
    /\ UNCHANGED color_vars

(* The rest of on_action: a button press is forwarded as a click event
   through send_event, whose failure is only logged; any other action is
   logged as unexpected. *)
send_event ==
    /\ ui_pc = "send_event"
    /\ LET event == WidgetAction(Len(produced) + 1, Debug(pending.widget_id))
           r == IF pending.press
                THEN send(event_queue, event, sender_alive)
                ELSE [queue |-> event_queue, ok |-> FALSE]
       IN /\ event_queue' = r.queue
          /\ produced' = IF r.ok THEN Append(produced, event) ELSE produced
    /\ ui_pc' = "idle"
    /\ UNCHANGED <<command_vars, pending, action_count, script_vars, life_vars>>
    /\ UNCHANGED registry_vars
    /\ UNCHANGED legacy_vars
    /\ UNCHANGED serializer_vars
    /\ UNCHANGED startup_vars
    /\ UNCHANGED emitter_vars
    /\ UNCHANGED hover_vars
    /\ UNCHANGED color_vars

(* Proxy driver: the event loop delivers the oldest AsyncAction to
   on_action, which handles the command at once. *)
on_command_action ==
    /\ driver = "proxy"
    /\ receiver_alive
    /\ command_queue # <<>>
    /\ dispatched' = Append(dispatched, Head(command_queue))
    /\ command_queue' = Tail(command_queue)
    /\ UNCHANGED <<sent, next_command, send_result, recv_result>>
    /\ UNCHANGED <<ui_vars, event_vars, script_vars, life_vars>>
    /\ UNCHANGED registry_vars
    /\ UNCHANGED legacy_vars
    /\ UNCHANGED serializer_vars
    /\ UNCHANGED startup_vars
    /\ UNCHANGED emitter_vars
    /\ UNCHANGED hover_vars
    /\ UNCHANGED color_vars

(* The script thread ends: its command sender and its event receiver, with
   what the receiver buffers, are dropped. *)
drop_sender ==
    /\ sender_alive
    /\ \A slot \in DOMAIN calls : calls[slot].state = "idle"
    /\ sender_alive' = FALSE
    /\ event_queue' = <<>>
    /\ UNCHANGED <<command_vars, ui_vars, produced, script_vars, driver, receiver_alive>>
    /\ UNCHANGED registry_vars
    /\ UNCHANGED legacy_vars
    /\ UNCHANGED serializer_vars
    /\ UNCHANGED startup_vars
    /\ UNCHANGED emitter_vars
    /\ UNCHANGED hover_vars
    /\ UNCHANGED color_vars

(* The UI run loop returns: the command receiver, with what it buffers,
   and the event sender are dropped with the driver, and a main that was
   inside run_ui goes on to the join. *)
run_ui_returns ==
    /\ receiver_alive
    /\ ui_pc = "idle"
    /\ receiver_alive' = FALSE
    /\ command_queue' = <<>>
    /\ main_pc' = IF main_pc = "run_ui" THEN "join" ELSE main_pc
    /\ started' = IF main_pc = "run_ui" THEN started \cup {"run_ui"} ELSE started
    /\ UNCHANGED <<sent, dispatched, next_command, send_result, recv_result>>
    /\ UNCHANGED <<ui_vars, event_vars, script_vars, driver, sender_alive>>
    /\ UNCHANGED <<args, files, absolute_path, stderr, exit_status>>
    /\ UNCHANGED registry_vars
    /\ UNCHANGED legacy_vars
    /\ UNCHANGED serializer_vars
    /\ UNCHANGED emitter_vars
    /\ UNCHANGED hover_vars
    /\ UNCHANGED color_vars

-----------------------------------------------------------------------------
(* op_wait_for_event and the script's event loop *)

Slots == {"loop", "direct"}
Idle == [state |-> "idle", value |-> <<>>]
Spawned == [state |-> "spawned", value |-> <<>>]

Outstanding(cs) == {slot \in DOMAIN cs : cs[slot].state # "idle"}

(* The script calls op_wait_for_event itself: the blocking task is spawned. *)
op_wait_for_event ==
    /\ sender_alive
    /\ calls["direct"].state = "idle"
    /\ calls' = [calls EXCEPT !["direct"] = Spawned]
    /\ overlapped' = (overlapped \/ Cardinality(Outstanding(calls')) >= 2)
    /\ UNCHANGED <<mutex, returned, delivered, listeners, loop_running>>
    /\ UNCHANGED <<command_vars, ui_vars, event_vars, life_vars>>
    /\ UNCHANGED registry_vars
    /\ UNCHANGED legacy_vars
    /\ UNCHANGED serializer_vars
    /\ UNCHANGED startup_vars
    /\ UNCHANGED emitter_vars
    /\ UNCHANGED hover_vars
    /\ UNCHANGED color_vars

(* The blocking task takes the mutex: receiver.lock(). *)
lock(slot) ==
    /\ calls[slot].state = "spawned"
    /\ mutex = "free"
    /\ mutex' = slot
    /\ calls' = [calls EXCEPT ![slot].state = "recv"]
    /\ UNCHANGED <<returned, delivered, listeners, loop_running, overlapped>>
    /\ UNCHANGED <<command_vars, ui_vars, event_vars, life_vars>>
    /\ UNCHANGED registry_vars
    /\ UNCHANGED legacy_vars
    /\ UNCHANGED serializer_vars
    /\ UNCHANGED startup_vars
    /\ UNCHANGED emitter_vars
    /\ UNCHANGED hover_vars
    /\ UNCHANGED color_vars

(* The result op_wait_for_event makes of what recv returned. *)
op_result(r) ==
    IF r.result = "Ok" THEN r.value ELSE <<Disconnected>>

(* rx.recv() returns in the blocking task; the guard is dropped as the
   closure ends. *)
blocking_recv(slot) ==
    /\ calls[slot].state = "recv"
    /\ LET r == recv(event_queue, receiver_alive)
       IN /\ r.result # "Blocked"
          /\ event_queue' = r.queue
          /\ calls' = [calls EXCEPT ![slot] = [state |-> "done", value |-> op_result(r)]]
    /\ mutex' = "free"
    /\ UNCHANGED <<returned, delivered, listeners, loop_running, overlapped>>
    /\ UNCHANGED <<command_vars, ui_vars, produced, life_vars>>
    /\ UNCHANGED registry_vars
    /\ UNCHANGED legacy_vars
    /\ UNCHANGED serializer_vars
    /\ UNCHANGED startup_vars
    /\ UNCHANGED emitter_vars
    /\ UNCHANGED hover_vars
    /\ UNCHANGED color_vars

(* The events among the values the op returned. *)
EventsIn(value) == SelectSeq(value, LAMBDA v : v.type # "disconnected")

(* The promise of a direct op_wait_for_event call resolves in the script. *)
wait_for_event_returns ==
    /\ calls["direct"].state = "done"
    /\ returned' = returned \o EventsIn(calls["direct"].value)
    /\ calls' = [calls EXCEPT !["direct"] = Idle]
    /\ UNCHANGED <<mutex, delivered, listeners, loop_running, overlapped>>
    /\ UNCHANGED <<command_vars, ui_vars, event_vars, life_vars>>
    /\ UNCHANGED registry_vars
    /\ UNCHANGED legacy_vars
    /\ UNCHANGED serializer_vars
    /\ UNCHANGED startup_vars
    /\ UNCHANGED emitter_vars
    /\ UNCHANGED hover_vars
    /\ UNCHANGED color_vars

(* events.on: the callback is registered and the event loop is started
   unless it runs; _startEventLoop runs up to its first await. *)
events_on ==
    /\ sender_alive
    /\ listeners < MaxListeners
    /\ listeners' = listeners + 1
    /\ IF loop_running
       THEN UNCHANGED <<calls, loop_running, overlapped>>
       ELSE /\ loop_running' = TRUE
            /\ calls' = [calls EXCEPT !["loop"] = Spawned]
            /\ overlapped' = (overlapped \/ Cardinality(Outstanding(calls')) >= 2)
    /\ UNCHANGED <<mutex, returned, delivered>>
    /\ UNCHANGED <<command_vars, ui_vars, event_vars, life_vars>>
    /\ UNCHANGED registry_vars
    /\ UNCHANGED legacy_vars
    /\ UNCHANGED serializer_vars
    /\ UNCHANGED startup_vars
    /\ UNCHANGED emitter_vars
    /\ UNCHANGED hover_vars
    /\ UNCHANGED color_vars

(* _startEventLoop resumes after its await: the sentinel stops the loop,
   any other event goes through _dispatch to the listeners and the loop
   awaits op_wait_for_event again. *)
event_loop_resume ==
    /\ calls["loop"].state = "done"
    /\ LET message == calls["loop"].value[1]
       IN IF message.type = "disconnected"
          THEN /\ loop_running' = FALSE
               /\ calls' = [calls EXCEPT !["loop"] = Idle]
               /\ UNCHANGED <<returned, delivered, overlapped>>
          ELSE /\ returned' = Append(returned, message)
               /\ delivered' = Append(delivered, message)
               /\ calls' = [calls EXCEPT !["loop"] = Spawned]
               /\ overlapped' = (overlapped \/ Cardinality(Outstanding(calls')) >= 2)
               /\ UNCHANGED loop_running
    /\ UNCHANGED <<mutex, listeners>>
    /\ UNCHANGED <<command_vars, ui_vars, event_vars, life_vars>>
    /\ UNCHANGED registry_vars
    /\ UNCHANGED legacy_vars
    /\ UNCHANGED serializer_vars
    /\ UNCHANGED startup_vars
    /\ UNCHANGED emitter_vars
    /\ UNCHANGED hover_vars
    /\ UNCHANGED color_vars

-----------------------------------------------------------------------------

(* The proxy driver's widget actions and the commands that only touch the
   native widget *)

js_ids_all(m, widget_id) == DOMAIN m.widgets

(* The reverse lookup of on_action: the ids whose record holds the native
   handle; the scan stops at the first one it meets. *)
js_ids(m, widget_id) ==
    {id \in DOMAIN m.widgets : m.widgets[id].widget_id = widget_id}

(* Proxy driver: on_action for an action that is not a command.  A
   ButtonPress on a registered widget is sent as a click event carrying
   the script's id; the result of the send is ignored. *)
on_widget_action(widget_id, press) ==
    /\ driver = "proxy"
    /\ receiver_alive
    /\ ~crashed
    /\ steps < MaxSteps
    /\ \/ /\ js_ids(widget_manager, widget_id) = {}
          /\ last' = [NoOp EXCEPT !.op = "action", !.added = press,
                                  !.widget_id = widget_id]
          /\ UNCHANGED event_vars
       \/ \E id \in js_ids(widget_manager, widget_id) :
             LET event == WidgetAction(Len(produced) + 1, id)
                 r == IF press
                      THEN send(event_queue, event, sender_alive)
                      ELSE [queue |-> event_queue, ok |-> FALSE]
             IN /\ event_queue' = r.queue
                /\ produced' = IF r.ok THEN Append(produced, event) ELSE produced
                /\ last' = [NoOp EXCEPT !.op = "action", !.id = id, !.found = TRUE,
                                        !.added = press, !.widget_id = widget_id]
    /\ steps' = steps + 1
    /\ UNCHANGED <<widget_manager, next_widget_id, crashed, assigned, removed_any>>
    /\ UNCHANGED <<command_vars, ui_vars, script_vars, life_vars>>
    /\ UNCHANGED legacy_vars
    /\ UNCHANGED serializer_vars
    /\ UNCHANGED startup_vars
    /\ UNCHANGED emitter_vars
    /\ UNCHANGED hover_vars
    /\ UNCHANGED color_vars

SetCommands == {"SetWidgetText", "SetWidgetVisible"}

(* handle_js_command for SetWidgetText and SetWidgetVisible: the command
   is logged; the registry is not consulted. *)
handle_js_command(m, command, id) == m

(* The UI thread handles a SetWidgetText or SetWidgetVisible command. *)
set_widget(command, id) ==
    /\ receiver_alive
    /\ ~crashed
    /\ steps < MaxSteps
    /\ widget_manager' = handle_js_command(widget_manager, command, id)
    /\ last' = [NoOp EXCEPT !.op = command, !.id = id,
                            !.found = id \in DOMAIN widget_manager.widgets]
    /\ steps' = steps + 1
    /\ UNCHANGED <<next_widget_id, crashed, assigned, removed_any>>
    /\ UNCHANGED channel_vars
    /\ UNCHANGED legacy_vars
    /\ UNCHANGED serializer_vars
    /\ UNCHANGED startup_vars
    /\ UNCHANGED emitter_vars
    /\ UNCHANGED hover_vars
    /\ UNCHANGED color_vars

-----------------------------------------------------------------------------

(* serialize_event, escape_json_string and the script's JSON.parse *)

(* A text is a sequence of characters.  The characters that matter are
   named; a word ("type", "click", "12") stands for a run of characters
   that need no escaping. *)
Q == "quote"
BS == "backslash"
ControlChars == {"newline", "carriage return", "tab", "backspace"}
Chars == {"x", "n", Q, BS, "newline", "backspace"}

RECURSIVE StringsUpTo(_)
StringsUpTo(len) ==
    IF len = 0 THEN {<<>>}
    ELSE LET shorter == StringsUpTo(len - 1)
         IN shorter \cup {Append(s, c) : s \in shorter, c \in Chars}

(* s.replace(from, to) for a single character from *)
RECURSIVE replace(_, _, _)
replace(s, from, to) ==
    IF s = <<>> THEN <<>>
    ELSE (IF Head(s) = from THEN to ELSE <<Head(s)>>) \o replace(Tail(s), from, to)

escape_json_string(s) ==
    replace(replace(replace(replace(replace(s,
        BS, <<BS, BS>>),
        Q, <<BS, Q>>),
        "newline", <<BS, "n">>),
        "carriage return", <<BS, "r">>),
        "tab", <<BS, "t">>)

(* Display of a u32, of a bool and of an f64 (kept in tenths): 1.0 prints
   as 1, 0.5 as 0.5. *)
format_u32(n) == <<ToString(n)>>
format_bool(b) == <<IF b THEN "true" ELSE "false">>
format_f64(v) ==
    IF v % 10 = 0 THEN <<ToString(v \div 10)>>
    ELSE <<ToString(v \div 10), ".", ToString(v % 10)>>

(* "key": *)
member(name) == <<Q, name, Q, ":">>
(* "text" *)
quoted(text) == <<Q>> \o text \o <<Q>>

(* The action_str of serialize_event in ipc_ops.rs: for the variants with
   a payload it closes the action string and opens a "value" member. *)
action_str(action) ==
    CASE action.kind = "click" -> <<"click">>
      [] action.kind = "doubleClick" -> <<"doubleClick">>
      [] action.kind = "textChanged" ->
            <<"textChanged", Q, ",">> \o member("value")
               \o quoted(escape_json_string(action.value))
      [] action.kind = "valueChanged" ->
            <<"valueChanged", Q, ",">> \o member("value") \o format_f64(action.value)
      [] action.kind = "custom" ->
            <<"custom", Q, ",">> \o member("value")
               \o quoted(escape_json_string(action.value))

modifiers_text(m) ==
    member("shift") \o format_bool(m.shift) \o <<",">>
       \o member("ctrl") \o format_bool(m.ctrl) \o <<",">>
       \o member("alt") \o format_bool(m.alt) \o <<",">>
       \o member("meta") \o format_bool(m.meta)

(* serialize_event of js_thread/ipc_ops.rs *)
serialize_event(event) ==
    CASE event.type = "windowResized" ->
            <<"{">> \o member("type") \o quoted(<<"windowResized">>) \o <<",">>
               \o member("width") \o format_u32(event.width) \o <<",">>
               \o member("height") \o format_u32(event.height) \o <<"}">>
      [] event.type \in {"mouseClick", "mouseMove"} ->
            <<"{">> \o member("type") \o quoted(<<event.type>>) \o <<",">>
               \o member("x") \o format_f64(event.x) \o <<",">>
               \o member("y") \o format_f64(event.y) \o <<"}">>
      [] event.type \in {"keyPress", "keyRelease"} ->
            <<"{">> \o member("type") \o quoted(<<event.type>>) \o <<",">>
               \o member("key") \o quoted(escape_json_string(event.key)) \o <<",">>
               \o modifiers_text(event.modifiers) \o <<"}">>
      [] event.type = "textInput" ->
            <<"{">> \o member("type") \o quoted(<<"textInput">>) \o <<",">>
               \o member("text") \o quoted(escape_json_string(event.text)) \o <<"}">>
      [] event.type = "widgetAction" ->
            <<"{">> \o member("type") \o quoted(<<"widgetAction">>) \o <<",">>
               \o member("widgetId") \o quoted(escape_json_string(event.widget_id))
               \o <<",">>
               \o member("action") \o quoted(action_str(event.action)) \o <<"}">>
      [] event.type = "windowFocusChanged" ->
            <<"{">> \o member("type") \o quoted(<<"windowFocusChanged">>) \o <<",">>
               \o member("focused") \o format_bool(event.focused) \o <<"}">>
      [] event.type \in {"windowCloseRequested", "appExit"} ->
            <<"{">> \o member("type") \o quoted(<<event.type>>) \o <<"}">>

(* serialize_event of js_thread/event_serializer.rs: WidgetAction with
   Click or ValueChanged only. *)
event_serializer_serialize_event(event) ==
    CASE event.action.kind = "click" ->
            <<"{">> \o member("type") \o quoted(<<"widgetAction">>) \o <<",">>
               \o member("widgetId") \o quoted(escape_json_string(event.widget_id))
               \o <<",">>
               \o member("action") \o quoted(<<"click">>) \o <<"}">>
      [] event.action.kind = "valueChanged" ->
            <<"{">> \o member("type") \o quoted(<<"widgetAction">>) \o <<",">>
               \o member("widgetId") \o quoted(escape_json_string(event.widget_id))
               \o <<",">>
               \o member("action") \o quoted(<<"valueChanged">>) \o <<",">>
               \o member("value") \o format_f64(event.action.value) \o <<"}">>

(* JSON.parse, for the texts above: one object whose members are strings,
   numbers or booleans. *)
DigitWords == {ToString(n) : n \in 0..MaxNumber}
NumberOf(word) == CHOOSE n \in 0..MaxNumber : ToString(n) = word
Unescaped(c) ==
    CASE c = Q -> Q
      [] c = BS -> BS
      [] c = "n" -> "newline"
      [] c = "r" -> "carriage return"
      [] c = "t" -> "tab"
      [] c = "b" -> "backspace"

NoValue == [ok |-> FALSE, value |-> <<>>, next |-> 0]

(* The characters of a string from position i, just after the opening
   quote, up to the closing quote. *)
RECURSIVE parse_chars(_, _, _)
parse_chars(text, i, acc) ==
    IF i > Len(text) THEN NoValue
    ELSE IF text[i] = Q THEN [ok |-> TRUE, value |-> acc, next |-> i + 1]
    ELSE IF text[i] = BS
         THEN IF i + 1 <= Len(text) /\ text[i + 1] \in {Q, BS, "n", "r", "t", "b"}
              THEN parse_chars(text, i + 2, Append(acc, Unescaped(text[i + 1])))
              ELSE NoValue
    ELSE IF text[i] \in ControlChars \cup {"{", "}", ":", ",", "."} THEN NoValue
    ELSE parse_chars(text, i + 1, Append(acc, text[i]))

parse_value(text, i) ==
    IF i > Len(text) THEN NoValue
    ELSE IF text[i] = Q
         THEN LET s == parse_chars(text, i + 1, <<>>)
              IN [s EXCEPT !.value = [kind |-> "string", value |-> s.value]]
    ELSE IF text[i] \in {"true", "false"}
         THEN [ok |-> TRUE, value |-> [kind |-> "bool", value |-> text[i] = "true"],
               next |-> i + 1]
    ELSE IF text[i] \in DigitWords
         THEN IF i + 2 <= Len(text) /\ text[i + 1] = "." /\ text[i + 2] \in DigitWords
              THEN [ok |-> TRUE,
                    value |-> [kind |-> "number",
                               value |-> 10 * NumberOf(text[i]) + NumberOf(text[i + 2])],
                    next |-> i + 3]
              ELSE [ok |-> TRUE,
                    value |-> [kind |-> "number", value |-> 10 * NumberOf(text[i])],
                    next |-> i + 1]
    ELSE NoValue

SyntaxError == [ok |-> FALSE, fields |-> EmptyMap]

RECURSIVE parse_members(_, _, _)
parse_members(text, i, fields) ==
    IF i > Len(text) \/ text[i] # Q THEN SyntaxError
    ELSE LET k == parse_chars(text, i + 1, <<>>)
         IN IF ~k.ok \/ k.next > Len(text) \/ text[k.next] # ":" THEN SyntaxError
            ELSE LET v == parse_value(text, k.next + 1)
                 IN IF ~v.ok \/ v.next > Len(text) THEN SyntaxError
                    ELSE IF text[v.next] = "}"
                         THEN IF v.next = Len(text)
                              THEN [ok |-> TRUE,
                                    fields |-> MapInsert(fields, k.value, v.value)]
                              ELSE SyntaxError
                    ELSE IF text[v.next] = ","
                         THEN parse_members(text, v.next + 1,
                                            MapInsert(fields, k.value, v.value))
                    ELSE SyntaxError

JSON_parse(text) ==
    IF Len(text) < 2 \/ text[1] # "{" THEN SyntaxError
    ELSE IF text[2] = "}"
         THEN IF Len(text) = 2 THEN [ok |-> TRUE, fields |-> EmptyMap] ELSE SyntaxError
    ELSE parse_members(text, 2, EmptyMap)

(* The events the UI thread can send. *)
Strings == StringsUpTo(MaxLen)
WidgetIdStrings == StringsUpTo(MaxIdLen)
Floats == {5, 10}
Sizes == {0, MaxNumber}
Modifiers == [shift : BOOLEAN, ctrl : BOOLEAN, alt : BOOLEAN, meta : BOOLEAN]

WidgetActionKinds ==
    {[kind |-> "click"], [kind |-> "doubleClick"]}
       \cup {[kind |-> "textChanged", value |-> t] : t \in Strings}
       \cup {[kind |-> "valueChanged", value |-> v] : v \in Floats}
       \cup {[kind |-> "custom", value |-> c] : c \in Strings}

UiEvents ==
    {[type |-> "windowResized", width |-> w, height |-> h] : w \in Sizes, h \in Sizes}
       \cup {[type |-> t, x |-> x, y |-> y] :
                t \in {"mouseClick", "mouseMove"}, x \in Floats, y \in Floats}
       \cup {[type |-> t, key |-> k, modifiers |-> m] :
                t \in {"keyPress", "keyRelease"}, k \in Strings, m \in Modifiers}
       \cup {[type |-> "textInput", text |-> t] : t \in Strings}
       \cup {[type |-> "widgetAction", widget_id |-> id, action |-> a] :
                id \in WidgetIdStrings, a \in WidgetActionKinds}
       \cup {[type |-> "windowFocusChanged", focused |-> f] : f \in BOOLEAN}
       \cup {[type |-> "windowCloseRequested"], [type |-> "appExit"]}

(* The events of the event_serializer module's WidgetActionKind. *)
SerializerEvents ==
    {[type |-> "widgetAction", widget_id |-> id, action |-> a] :
        id \in WidgetIdStrings,
        a \in {[kind |-> "click"]}
                 \cup {[kind |-> "valueChanged", value |-> v] : v \in Floats}}

Serializers == {"ipc_ops", "event_serializer"}
EventsOf(s) == IF s = "ipc_ops" THEN UiEvents ELSE SerializerEvents

(* The string field of an event that serialize_event passes through
   escape_json_string. *)
HasStringField(event) ==
    event.type \in {"keyPress", "keyRelease", "textInput", "widgetAction"}

StringField(event) ==
    CASE event.type \in {"keyPress", "keyRelease"} -> event.key
      [] event.type = "textInput" -> event.text
      [] event.type = "widgetAction" -> event.widget_id

(* serialize_event escapes the string field of the event. *)
escape ==
    /\ HasStringField(ui_event)
    /\ escaped = <<>>
    /\ escaped' = <<escape_json_string(StringField(ui_event))>>
    /\ UNCHANGED <<serializer, ui_event, json, parsed>>
    /\ UNCHANGED registry_vars
    /\ UNCHANGED legacy_vars
    /\ UNCHANGED channel_vars
    /\ UNCHANGED startup_vars
    /\ UNCHANGED emitter_vars
    /\ UNCHANGED hover_vars
    /\ UNCHANGED color_vars

(* op_wait_for_event turns the event it received into the JSON text. *)
serialize ==
    /\ json = <<>>
    /\ json' = IF serializer = "ipc_ops"
               THEN serialize_event(ui_event)
               ELSE event_serializer_serialize_event(ui_event)
    /\ UNCHANGED <<serializer, ui_event, parsed, escaped>>
    /\ UNCHANGED registry_vars
    /\ UNCHANGED legacy_vars
    /\ UNCHANGED channel_vars
    /\ UNCHANGED startup_vars
    /\ UNCHANGED emitter_vars
    /\ UNCHANGED hover_vars
    /\ UNCHANGED color_vars

(* _dispatch: const event = JSON.parse(eventJson) *)
dispatch_parse ==
    /\ json # <<>>
    /\ parsed = <<>>
    /\ parsed' = <<JSON_parse(json)>>
    /\ UNCHANGED <<serializer, ui_event, json, escaped>>
    /\ UNCHANGED registry_vars
    /\ UNCHANGED legacy_vars
    /\ UNCHANGED channel_vars
    /\ UNCHANGED startup_vars
    /\ UNCHANGED emitter_vars
    /\ UNCHANGED hover_vars
    /\ UNCHANGED color_vars

-----------------------------------------------------------------------------
(* main(): start-up of the process *)

MaxArgs == 2

Paths == {"app.js", "./app.ts", "/srv/app.js", ""}

(* Where each non-empty path leads from the working directory. *)
Canonical == ("app.js" :> "/cwd/app.js") @@ ("./app.ts" :> "/cwd/app.ts") @@
             ("/srv/app.js" :> "/srv/app.js")

CanonicalPaths == {Canonical[path] : path \in DOMAIN Canonical}

canonicalize_lexical(path, existing) ==
    IF path \in DOMAIN Canonical THEN <<Canonical[path]>> ELSE <<"/cwd">>

(* Path::canonicalize: Ok(absolute path) iff the path leads to something
   that exists. *)
canonicalize(path, existing) ==
    IF path \in DOMAIN Canonical /\ Canonical[path] \in existing
    THEN <<Canonical[path]>>
    ELSE <<>>

Usage == <<"Usage: appjs <script.js|script.ts>", "  Example: appjs ./app.js">>

CannotResolve(path) == "Error: Cannot resolve script path '" \o path \o "'"

(* let script_path = match args.get(1) *)
parse_arguments ==
    /\ main_pc = "args"
    /\ IF Len(args) < 2
       THEN /\ stderr' = stderr \o Usage
            /\ exit_status' = <<1>>
            /\ main_pc' = "exited"
       ELSE /\ main_pc' = "canonicalize"
            /\ UNCHANGED <<stderr, exit_status>>
    /\ UNCHANGED <<args, files, absolute_path, started>>
    /\ UNCHANGED registry_vars
    /\ UNCHANGED legacy_vars
    /\ UNCHANGED channel_vars
    /\ UNCHANGED serializer_vars
    /\ UNCHANGED emitter_vars
    /\ UNCHANGED hover_vars
    /\ UNCHANGED color_vars

(* let absolute_path = match script_path.canonicalize() *)
resolve_script_path ==
    /\ main_pc = "canonicalize"
    /\ LET p == canonicalize(args[2], files)
       IN IF p = <<>>
          THEN /\ stderr' = Append(stderr, CannotResolve(args[2]))
               /\ exit_status' = <<1>>
               /\ main_pc' = "exited"
               /\ UNCHANGED absolute_path
          ELSE /\ absolute_path' = p
               /\ main_pc' = "channels"
               /\ UNCHANGED <<stderr, exit_status>>
    /\ UNCHANGED <<args, files, started>>
    /\ UNCHANGED registry_vars
    /\ UNCHANGED legacy_vars
    /\ UNCHANGED channel_vars
    /\ UNCHANGED serializer_vars
    /\ UNCHANGED emitter_vars
    /\ UNCHANGED hover_vars
    /\ UNCHANGED color_vars

(* let channels = IpcChannels::new() *)
create_channels ==
    /\ main_pc = "channels"
    /\ started' = started \cup {"IpcChannels"}
    /\ main_pc' = "spawn"
    /\ UNCHANGED <<args, files, absolute_path, stderr, exit_status>>
    /\ UNCHANGED registry_vars
    /\ UNCHANGED legacy_vars
    /\ UNCHANGED channel_vars
    /\ UNCHANGED serializer_vars
    /\ UNCHANGED emitter_vars
    /\ UNCHANGED hover_vars
    /\ UNCHANGED color_vars

(* thread::Builder::new().name("js-runtime").spawn(..) *)
spawn_js_thread ==
    /\ main_pc = "spawn"
    /\ started' = started \cup {"js-runtime"}
    /\ main_pc' = "run_ui"
    /\ UNCHANGED <<args, files, absolute_path, stderr, exit_status>>
    /\ UNCHANGED registry_vars
    /\ UNCHANGED legacy_vars
    /\ UNCHANGED channel_vars
    /\ UNCHANGED serializer_vars
    /\ UNCHANGED emitter_vars
    /\ UNCHANGED hover_vars
    /\ UNCHANGED color_vars

(* run_ui(..): returns when the window is closed. *)
run_ui ==
    /\ main_pc = "run_ui"
    /\ started' = started \cup {"run_ui"}
    /\ main_pc' = "join"
    /\ UNCHANGED <<args, files, absolute_path, stderr, exit_status>>
    /\ UNCHANGED registry_vars
    /\ UNCHANGED legacy_vars
    /\ UNCHANGED channel_vars
    /\ UNCHANGED serializer_vars
    /\ UNCHANGED emitter_vars
    /\ UNCHANGED hover_vars
    /\ UNCHANGED color_vars

(* js_thread_handle.join(), with the script thread having finished or
   panicked, and the return from main. *)
join_js_thread(panicked) ==
    /\ main_pc = "join"
    /\ stderr' = IF panicked THEN Append(stderr, "[Main] JS thread panicked") ELSE stderr
    /\ exit_status' = <<0>>
    /\ main_pc' = "exited"
    /\ UNCHANGED <<args, files, absolute_path, started>>
    /\ UNCHANGED registry_vars
    /\ UNCHANGED legacy_vars
    /\ UNCHANGED channel_vars
    /\ UNCHANGED serializer_vars
    /\ UNCHANGED emitter_vars
    /\ UNCHANGED hover_vars
    /\ UNCHANGED color_vars

-----------------------------------------------------------------------------
(* runtime.js: the event emitter of globalThis.appjs.events *)

MaxRegistrations == 2

EventTypes == {"widgetAction", "appExit"}
ListenerTypes == {"widgetAction", "*"}

(* The callbacks a script registers, and what each does when invoked: f
   returns, g throws, h calls the unsubscribe function of its registration
   under the type being dispatched and returns. *)
Callbacks == {"f", "g", "h"}
Body == ("f" :> "returns") @@ ("g" :> "throws") @@ ("h" :> "unsubscribes")

(* handlers.indexOf(callback): 0 when absent. *)
indexOf(handlers, callback) ==
    IF \E i \in 1..Len(handlers) : handlers[i] = callback
    THEN CHOOSE i \in 1..Len(handlers) :
            handlers[i] = callback /\ \A j \in 1..(i - 1) : handlers[j] # callback
    ELSE 0

(* handlers.splice(idx, 1) *)
splice(handlers, idx) ==
    [i \in 1..(Len(handlers) - 1) |-> IF i < idx THEN handlers[i] ELSE handlers[i + 1]]

(* The function events.on(type, callback) returns. *)
unsubscribe(m, type, callback) ==
    IF type \in DOMAIN m /\ indexOf(m[type], callback) > 0
    THEN [m EXCEPT ![type] = splice(m[type], indexOf(m[type], callback))]
    ELSE m

(* for (const handler of handlers) { try { handler(event) } catch .. }:
   the array iterator reads handlers[i] of the live array while i is
   within its current length. *)
RECURSIVE for_of(_, _, _, _)
for_of(m, key, i, acc) ==
    IF key \notin DOMAIN m \/ i > Len(m[key])
    THEN [listeners |-> m, invoked |-> acc.invoked, errors |-> acc.errors]
    ELSE LET handler == m[key][i]
         IN for_of(IF Body[handler] = "unsubscribes"
                   THEN unsubscribe(m, key, handler) ELSE m,
                   key, i + 1,
                   [invoked |-> Append(acc.invoked, handler),
                    errors |-> acc.errors + (IF Body[handler] = "throws" THEN 1 ELSE 0)])

(* _dispatch: the handlers of the event's type, then the wildcard ones. *)
_dispatch(m, type) ==
    LET typed == for_of(m, type, 1, [invoked |-> <<>>, errors |-> 0])
    IN for_of(typed.listeners, "*", 1, [invoked |-> typed.invoked, errors |-> typed.errors])

(* What op_wait_for_event can hand to the loop: the text of an event, the
   text of the disconnected sentinel, nothing, or a text JSON.parse rejects. *)
EventJsons == {"event", "disconnected", "null", "SyntaxError"}

(* _startEventLoop up to its first await: a second activation returns at
   once; the first sets the flag and issues op_wait_for_event. *)
_startEventLoop(running, awaiting) ==
    IF running
    THEN [running |-> running, loops |-> awaiting]
    ELSE [running |-> TRUE, loops |-> awaiting + 1]

event_loop_iteration_no_break(running, eventJson) ==
    IF eventJson = "event"
    THEN [running |-> running, again |-> running, dispatch |-> TRUE]
    ELSE [running |-> FALSE, again |-> TRUE, dispatch |-> FALSE]

(* One turn of the while loop from the point where the await returns:
   whether _dispatch is called, the flag afterwards, and whether the loop
   awaits again. *)
event_loop_iteration(running, eventJson) ==
    IF eventJson = "event"
    THEN [running |-> running, again |-> running, dispatch |-> TRUE]
    ELSE [running |-> FALSE, again |-> FALSE, dispatch |-> FALSE]

(* appjs.events.on(type, callback) *)
on(type, callback) ==
    /\ Len(unsubscribes) < MaxRegistrations
    /\ _listeners' = IF type \in DOMAIN _listeners
                     THEN [_listeners EXCEPT ![type] = Append(@, callback)]
                     ELSE MapInsert(_listeners, type, <<callback>>)
    /\ LET activation == IF ~_eventLoopRunning
                         THEN _startEventLoop(_eventLoopRunning, loops)
                         ELSE [running |-> _eventLoopRunning, loops |-> loops]
       IN /\ _eventLoopRunning' = activation.running
          /\ loops' = activation.loops
    /\ unsubscribes' = Append(unsubscribes, [type |-> type, callback |-> callback])
    /\ emitted' = [op |-> "on", type |-> type, n |-> Len(unsubscribes) + 1]
    /\ UNCHANGED <<called, invoked, console_error>>
    /\ UNCHANGED registry_vars
    /\ UNCHANGED legacy_vars
    /\ UNCHANGED channel_vars
    /\ UNCHANGED serializer_vars
    /\ UNCHANGED startup_vars
    /\ UNCHANGED hover_vars
    /\ UNCHANGED color_vars

(* The script calls the n-th function events.on returned. *)
call_unsubscribe(n) ==
    /\ n \in 1..Len(unsubscribes)
    /\ _listeners' = unsubscribe(_listeners, unsubscribes[n].type, unsubscribes[n].callback)
    /\ called' = called \cup {n}
    /\ emitted' = [op |-> "unsubscribe", type |-> unsubscribes[n].type, n |-> n]
    /\ UNCHANGED <<_eventLoopRunning, unsubscribes, invoked, console_error, loops>>
    /\ UNCHANGED registry_vars
    /\ UNCHANGED legacy_vars
    /\ UNCHANGED channel_vars
    /\ UNCHANGED serializer_vars
    /\ UNCHANGED startup_vars
    /\ UNCHANGED hover_vars
    /\ UNCHANGED color_vars

(* appjs.events.off(type) *)
off(type) ==
    /\ _listeners' = MapRemove(_listeners, type)
    /\ emitted' = [op |-> "off", type |-> type, n |-> 0]
    /\ UNCHANGED <<_eventLoopRunning, unsubscribes, called, invoked, console_error, loops>>
    /\ UNCHANGED registry_vars
    /\ UNCHANGED legacy_vars
    /\ UNCHANGED channel_vars
    /\ UNCHANGED serializer_vars
    /\ UNCHANGED startup_vars
    /\ UNCHANGED hover_vars
    /\ UNCHANGED color_vars

(* _startEventLoop received an event of the type and calls _dispatch; no
   exception leaves _dispatch, so the loop goes on. *)
dispatch(type) ==
    /\ loops > 0
    /\ LET turn == event_loop_iteration(_eventLoopRunning, "event")
           r == _dispatch(_listeners, type)
       IN /\ _listeners' = r.listeners
          /\ invoked' = r.invoked
          /\ console_error' = r.errors
          /\ _eventLoopRunning' = turn.running
          /\ loops' = IF turn.again THEN loops ELSE loops - 1
    /\ emitted' = [op |-> "dispatch", type |-> type, n |-> 0]
    /\ UNCHANGED <<unsubscribes, called>>
    /\ UNCHANGED registry_vars
    /\ UNCHANGED legacy_vars
    /\ UNCHANGED channel_vars
    /\ UNCHANGED serializer_vars
    /\ UNCHANGED startup_vars
    /\ UNCHANGED hover_vars
    /\ UNCHANGED color_vars

(* The await of one activation returns something that is not an event. *)
event_loop_receives(eventJson) ==
    /\ loops > 0
    /\ LET turn == event_loop_iteration(_eventLoopRunning, eventJson)
       IN /\ _eventLoopRunning' = turn.running
          /\ loops' = IF turn.again THEN loops ELSE loops - 1
    /\ emitted' = [op |-> eventJson, type |-> "*", n |-> 0]
    /\ UNCHANGED <<_listeners, unsubscribes, called, invoked, console_error>>
    /\ UNCHANGED registry_vars
    /\ UNCHANGED legacy_vars
    /\ UNCHANGED channel_vars
    /\ UNCHANGED serializer_vars
    /\ UNCHANGED startup_vars
    /\ UNCHANGED hover_vars
    /\ UNCHANGED color_vars

(* js_thread_handle.join() returns once the script thread has ended, and
   main returns. *)
join_returns ==
    /\ main_pc = "join"
    /\ ~sender_alive
    /\ exit_status' = <<0>>
    /\ main_pc' = "exited"
    /\ UNCHANGED <<args, files, absolute_path, stderr, started>>
    /\ UNCHANGED registry_vars
    /\ UNCHANGED legacy_vars
    /\ UNCHANGED channel_vars
    /\ UNCHANGED serializer_vars
    /\ UNCHANGED emitter_vars
    /\ UNCHANGED hover_vars
    /\ UNCHANGED color_vars

-----------------------------------------------------------------------------
(* ui/widgets/hoverable.rs *)

MaxUpdates == 12

HoverAction(hovered) == [hovered |-> hovered]

(* Hoverable::new_empty *)
new_empty ==
    [self_hovered |-> FALSE, child_hovered |-> FALSE, effective_hovered |-> FALSE]

update_hover_state_always(w) ==
    LET hovered == w.self_hovered \/ w.child_hovered
    IN [widget |-> [w EXCEPT !.effective_hovered = hovered],
        actions |-> <<HoverAction(hovered)>>]

(* Hoverable::update_hover_state: the widget afterwards and the actions
   handed to ctx.submit_action. *)
update_hover_state(w) ==
    LET hovered == w.self_hovered \/ w.child_hovered
    IN IF hovered # w.effective_hovered
       THEN [widget |-> [w EXCEPT !.effective_hovered = hovered],
             actions |-> <<HoverAction(hovered)>>]
       ELSE [widget |-> w, actions |-> <<>>]

UpdateEvents == {"HoveredChanged", "ChildHoveredChanged", "FocusChanged"}

(* <Hoverable as Widget>::update *)
update(w, event, hovered) ==
    CASE event = "HoveredChanged" ->
            update_hover_state([w EXCEPT !.self_hovered = hovered])
      [] event = "ChildHoveredChanged" ->
            update_hover_state([w EXCEPT !.child_hovered = hovered])
      [] OTHER -> [widget |-> w, actions |-> <<>>]

(* The toolkit hands the Hoverable an Update event. *)
hover_update(event, hovered) ==
    /\ updates < MaxUpdates
    /\ LET r == update(hoverable, event, hovered)
       IN /\ hoverable' = r.widget
          /\ submitted' = submitted \o r.actions
    /\ updates' = updates + 1
    /\ UNCHANGED registry_vars
    /\ UNCHANGED legacy_vars
    /\ UNCHANGED channel_vars
    /\ UNCHANGED serializer_vars
    /\ UNCHANGED startup_vars
    /\ UNCHANGED emitter_vars
    /\ UNCHANGED color_vars

HoverInit ==
    /\ hoverable = new_empty
    /\ submitted = <<>>
    /\ updates = 0

-----------------------------------------------------------------------------
(* ipc/color.rs *)

MaxHexLen == 8
MaxParts == 4
MaxNameLen == 3

(* A string is the sequence of its characters, each written as a token;
   "U+00E9" is a character that takes two bytes in UTF-8. *)
len_utf8(c) == IF c = "U+00E9" THEN 2 ELSE 1

(* str::len: the length in bytes. *)
RECURSIVE len(_)
len(s) == IF s = <<>> THEN 0 ELSE len_utf8(Head(s)) + len(Tail(s))

is_char_boundary(s, index) ==
    \E k \in 0..Len(s) : len(SubSeq(s, 1, k)) = index

Panic == [tag |-> "panic"]

(* &s[begin..end]: the indices count bytes, and the slice panics unless
   both lie on character boundaries. *)
slice(s, begin, end) ==
    IF begin <= end /\ is_char_boundary(s, begin) /\ is_char_boundary(s, end)
    THEN LET b == CHOOSE k \in 0..Len(s) : len(SubSeq(s, 1, k)) = begin
             e == CHOOSE k \in 0..Len(s) : len(SubSeq(s, 1, k)) = end
         IN [tag |-> "Ok", str |-> SubSeq(s, b + 1, e)]
    ELSE Panic

is_whitespace(c) == c = " "

(* str::trim *)
RECURSIVE trim(_)
trim(s) ==
    IF s = <<>> THEN s
    ELSE IF is_whitespace(Head(s)) THEN trim(Tail(s))
    ELSE IF is_whitespace(s[Len(s)]) THEN trim(SubSeq(s, 1, Len(s) - 1))
    ELSE s

starts_with(s, pat) == Len(s) >= Len(pat) /\ SubSeq(s, 1, Len(pat)) = pat

RECURSIVE trim_start_matches(_, _)
trim_start_matches(s, pat) ==
    IF starts_with(s, pat)
    THEN trim_start_matches(SubSeq(s, Len(pat) + 1, Len(s)), pat)
    ELSE s

RECURSIVE trim_end_matches(_, _)
trim_end_matches(s, c) ==
    IF s # <<>> /\ s[Len(s)] = c
    THEN trim_end_matches(SubSeq(s, 1, Len(s) - 1), c)
    ELSE s

(* str::split(c).collect() *)
RECURSIVE split(_, _)
split(s, c) ==
    IF \E i \in 1..Len(s) : s[i] = c
    THEN LET i == CHOOSE i \in 1..Len(s) :
                     s[i] = c /\ \A j \in 1..(i - 1) : s[j] # c
         IN <<SubSeq(s, 1, i - 1)>> \o split(SubSeq(s, i + 1, Len(s)), c)
    ELSE <<s>>

(* char::to_digit of the characters the inputs are made of. *)
to_digit ==
    ("0" :> 0) @@ ("1" :> 1) @@ ("5" :> 5) @@ ("f" :> 15) @@ ("F" :> 15)

Err == [tag |-> "Err"]
Ok(value) == [tag |-> "Ok", value |-> value]

(* The digit loop of u8::from_str_radix; -1 stands for InvalidDigit and
   PosOverflow. *)
RECURSIVE accumulate(_, _, _)
accumulate(digits, radix, result) ==
    IF digits = <<>> THEN result
    ELSE IF Head(digits) \notin DOMAIN to_digit THEN -1
    ELSE IF to_digit[Head(digits)] >= radix THEN -1
    ELSE LET next == result * radix + to_digit[Head(digits)]
         IN IF next > 255 THEN -1 ELSE accumulate(Tail(digits), radix, next)

(* u8::from_str_radix, and str::parse::<u8> with radix 10: an empty string
   and a lone sign are errors, one leading "+" is accepted. *)
from_str_radix(src, radix) ==
    IF src = <<>> \/ src = <<"+">> \/ src = <<"-">> THEN Err
    ELSE LET digits == IF Head(src) = "+" THEN Tail(src) ELSE src
             result == accumulate(digits, radix, 0)
         IN IF result < 0 THEN Err ELSE Ok(result)

IsDecimal(s) == \A i \in 1..Len(s) : s[i] \in DOMAIN to_digit /\ to_digit[s[i]] < 10

RECURSIVE Decimal(_, _)
Decimal(digits, result) ==
    IF digits = <<>> THEN result
    ELSE Decimal(Tail(digits), result * 10 + to_digit[Head(digits)])

RECURSIVE Pow10(_)
Pow10(n) == IF n = 0 THEN 1 ELSE 10 * Pow10(n - 1)

(* str::parse::<f32> on strings of signs, decimal digits and points: an
   optional sign, digits with at most one point, at least one digit.  The
   value is num / den, negated when neg. *)
parse_f32(src) ==
    LET signed == src # <<>> /\ Head(src) \in {"+", "-"}
        body == IF signed THEN Tail(src) ELSE src
        mantissa == split(body, ".")
        whole == mantissa[1]
        fraction == IF Len(mantissa) = 2 THEN mantissa[2] ELSE <<>>
    IN IF /\ Len(mantissa) <= 2
          /\ IsDecimal(whole)
          /\ IsDecimal(fraction)
          /\ Len(whole) + Len(fraction) >= 1
       THEN Ok([neg |-> signed /\ Head(src) = "-",
                num |-> Decimal(whole \o fraction, 0),
                den |-> Pow10(Len(fraction))])
       ELSE Err

(* (af * 255.0) as u8: the cast truncates and saturates. *)
alpha(af) ==
    IF af.neg THEN 0
    ELSE LET scaled == (af.num * 255) \div af.den
         IN IF scaled > 255 THEN 255 ELSE scaled

Option_None == [tag |-> "None"]
Rgba(r, g, b, a) == [tag |-> "Rgba", r |-> r, g |-> g, b |-> b, a |-> a]
Named(name) == [tag |-> "Named", name |-> name]

(* The "#" branch from the first from_str_radix on: the channels are sliced
   and parsed one after the other, and the first error returns None. *)
RECURSIVE hex_channels(_, _, _)
hex_channels(hex, channels, count) ==
    IF Len(channels) = count
    THEN Rgba(channels[1], channels[2], channels[3],
              IF count = 4 THEN channels[4] ELSE 255)
    ELSE LET digits == slice(hex, 2 * Len(channels), 2 * Len(channels) + 2)
         IN IF digits = Panic THEN Panic
            ELSE LET channel == from_str_radix(digits.str, 16)
                 IN IF channel = Err THEN Option_None
                    ELSE hex_channels(hex, Append(channels, channel.value), count)

(* The "rgb(" / "rgba(" branch. *)
rgb_channels(s) ==
    LET inner == trim_end_matches(
                     trim_start_matches(
                         trim_start_matches(s, <<"r", "g", "b", "a", "(">>),
                         <<"r", "g", "b", "(">>),
                     ")")
        parts == split(inner, ",")
    IN IF Len(parts) >= 3
       THEN LET r == from_str_radix(trim(parts[1]), 10)
                g == from_str_radix(trim(parts[2]), 10)
                b == from_str_radix(trim(parts[3]), 10)
                af == IF Len(parts) >= 4 THEN parse_f32(trim(parts[4])) ELSE Err
            IN IF r = Err \/ g = Err \/ b = Err THEN Option_None
               ELSE IF Len(parts) >= 4
                    THEN IF af = Err THEN Option_None
                         ELSE Rgba(r.value, g.value, b.value, alpha(af.value))
                    ELSE Rgba(r.value, g.value, b.value, 255)
       ELSE Option_None

(* char::to_lowercase of the characters the inputs are made of. *)
to_lowercase(s) ==
    [i \in 1..Len(s) |->
        CASE s[i] = "R" -> "r"
          [] s[i] = "E" -> "e"
          [] s[i] = "F" -> "f"
          [] OTHER -> s[i]]

RECURSIVE Join(_)
Join(s) == IF s = <<>> THEN "" ELSE Head(s) \o Join(Tail(s))

(* The named colors of the match in parse. *)
NamedColors ==
    [white |-> Rgba(255, 255, 255, 255), black |-> Rgba(0, 0, 0, 255),
     red |-> Rgba(255, 0, 0, 255), green |-> Rgba(0, 128, 0, 255),
     blue |-> Rgba(0, 0, 255, 255), yellow |-> Rgba(255, 255, 0, 255),
     cyan |-> Rgba(0, 255, 255, 255), magenta |-> Rgba(255, 0, 255, 255),
     orange |-> Rgba(255, 165, 0, 255), purple |-> Rgba(128, 0, 128, 255),
     gray |-> Rgba(128, 128, 128, 255), grey |-> Rgba(128, 128, 128, 255),
     transparent |-> Rgba(0, 0, 0, 0)]

(* ColorValue::parse *)
parse(input) ==
    LET s == trim(input)
    IN IF starts_with(s, <<"#">>)
       THEN LET hex == Tail(s)
            IN CASE len(hex) = 6 -> hex_channels(hex, <<>>, 3)
                 [] len(hex) = 8 -> hex_channels(hex, <<>>, 4)
                 [] OTHER -> Option_None
       ELSE IF \/ starts_with(s, <<"r", "g", "b", "(">>)
               \/ starts_with(s, <<"r", "g", "b", "a", "(">>)
       THEN rgb_channels(s)
       ELSE LET other == to_lowercase(s)
            IN IF Join(other) \in DOMAIN NamedColors
               THEN NamedColors[Join(other)]
               ELSE Named(other)

(* <ColorValue as Deserialize>::deserialize *)
deserialize(input) ==
    LET value == parse(input)
    IN CASE value = Panic -> Panic
         [] value = Option_None -> [tag |-> "Err", msg |-> "Invalid color string"]
         [] OTHER -> [tag |-> "Ok", value |-> value]

StringsOver(alphabet, n) == UNION {[1..k -> alphabet] : k \in 0..n}

HexChars == {"f", "+", "U+00E9"}
HexStrings == {<<"#">> \o hex : hex \in StringsOver(HexChars, MaxHexLen)}

RECURSIVE join(_, _)
join(parts, sep) ==
    IF parts = <<>> THEN <<>>
    ELSE IF Len(parts) = 1 THEN parts[1]
    ELSE parts[1] \o sep \o join(Tail(parts), sep)

Parts == {<<"1">>, <<"5", "1", "5">>, <<" ", "0">>, <<"0", ".", "5">>, <<"-", "1">>, <<>>}
RgbPrefixes == {<<"r", "g", "b", "(">>, <<"r", "g", "b", "a", "(">>,
                <<"r", "g", "b", "a", "(", "r", "g", "b", "(">>}
RgbStrings ==
    {prefix \o join(parts, <<",">>) \o close :
        prefix \in RgbPrefixes, parts \in StringsOver(Parts, MaxParts),
        close \in {<<>>, <<")">>}}

NameChars == {"r", "R", "e", "d"}
NameStrings == StringsOver(NameChars, MaxNameLen)

Pads == {<<>>, <<" ">>}
ColorStrings ==
    {pad \o s \o pad : pad \in Pads, s \in HexStrings \cup RgbStrings \cup NameStrings}

Unparsed == [tag |-> "unparsed"]

(* ColorValue::parse is applied to the string. *)
parse_color ==
    /\ color = Unparsed
    /\ color' = parse(color_string)
    /\ UNCHANGED <<color_string, deserialized>>
    /\ UNCHANGED registry_vars
    /\ UNCHANGED legacy_vars
    /\ UNCHANGED channel_vars
    /\ UNCHANGED serializer_vars
    /\ UNCHANGED startup_vars
    /\ UNCHANGED emitter_vars
    /\ UNCHANGED hover_vars

(* serde deserializes a ColorValue from the string. *)
deserialize_color ==
    /\ deserialized = Unparsed
    /\ deserialized' = deserialize(color_string)
    /\ UNCHANGED <<color_string, color>>
    /\ UNCHANGED registry_vars
    /\ UNCHANGED legacy_vars
    /\ UNCHANGED channel_vars
    /\ UNCHANGED serializer_vars
    /\ UNCHANGED startup_vars
    /\ UNCHANGED emitter_vars
    /\ UNCHANGED hover_vars

ColorIdle ==
    /\ color_string = <<>>
    /\ color = Unparsed
    /\ deserialized = Unparsed

-----------------------------------------------------------------------------

RegistryInit ==
    /\ widget_manager = new
    /\ next_widget_id = 1
    /\ crashed = FALSE
    /\ last = NoOp
    /\ assigned = EmptyMap
    /\ removed_any = FALSE
    /\ steps = 0

LegacyInit ==
    /\ legacy_manager = legacy_new

ChannelInit ==
    /\ sent = <<>>
    /\ command_queue = <<>>
    /\ dispatched = <<>>
    /\ next_command = 1
    /\ driver \in {"polling", "proxy"}
    /\ ui_pc = "idle"
    /\ event_queue = <<>>
    /\ sender_alive = TRUE
    /\ receiver_alive = TRUE
    /\ send_result = "none"
    /\ recv_result = "none"
    /\ pending = [widget_id |-> 1, press |-> FALSE]
    /\ action_count = 0
    /\ produced = <<>>
    /\ calls = [slot \in Slots |-> Idle]
    /\ mutex = "free"
    /\ returned = <<>>
    /\ delivered = <<>>
    /\ listeners = 0
    /\ loop_running = FALSE
    /\ overlapped = FALSE

SerializerIdle ==
    /\ serializer = "ipc_ops"
    /\ ui_event = [type |-> "appExit"]
    /\ json = <<>>
    /\ parsed = <<>>
    /\ escaped = <<>>

StartupIdle ==
    /\ args = <<"appjs">>
    /\ files = {}
    /\ main_pc = "args"
    /\ absolute_path = <<>>
    /\ stderr = <<>>
    /\ exit_status = <<>>
    /\ started = {}

EmitterInit ==
    /\ _listeners = EmptyMap
    /\ _eventLoopRunning = FALSE
    /\ unsubscribes = <<>>
    /\ called = {}
    /\ invoked = <<>>
    /\ console_error = 0
    /\ emitted = [op |-> "none", type |-> "*", n |-> 0]
    /\ loops = 0

Init ==
    /\ RegistryInit /\ LegacyInit /\ ChannelInit /\ SerializerIdle /\ StartupIdle
    /\ EmitterInit /\ HoverInit /\ ColorIdle

SerializeInit ==
    /\ RegistryInit
    /\ LegacyInit
    /\ ChannelInit
    /\ driver = "proxy"
    /\ serializer \in Serializers
    /\ ui_event \in EventsOf(serializer)
    /\ json = <<>>
    /\ parsed = <<>>
    /\ escaped = <<>>
    /\ StartupIdle
    /\ EmitterInit
    /\ HoverInit
    /\ ColorIdle

Next ==
    \/ \E id \in Ids, kind \in Kinds, parent_id \in ParentIds, inserted \in BOOLEAN :
          create_and_add_widget(id, kind, parent_id, inserted)
    \/ \E id \in Ids : remove_widget(id)

ProxyInit == Init /\ driver = "proxy"
PollingInit == Init /\ driver = "polling"

Spec == ProxyInit /\ [][Next]_vars

LegacyNext ==
    \E id \in Ids, kind \in Kinds, parent_id \in ParentIds, inserted \in BOOLEAN :
        legacy_create_widget(id, kind, parent_id, inserted, "valid")

LegacySpec == PollingInit /\ [][LegacyNext]_vars

ChannelNext ==
    \/ send_command
    \/ \E widget_id \in NativeHandles, press \in BOOLEAN : on_action(widget_id, press)
    \/ process_js_commands
    \/ send_event
    \/ on_command_action
    \/ drop_sender
    \/ run_ui_returns
    \/ op_wait_for_event
    \/ \E slot \in Slots : lock(slot)
    \/ \E slot \in Slots : blocking_recv(slot)
    \/ wait_for_event_returns
    \/ events_on
    \/ event_loop_resume

ChannelSpec == Init /\ [][ChannelNext]_vars

(* The proxy driver with the registry: creates, removals, the commands
   that only touch the native widget, and the user's widget actions. *)
AppKinds == {"Button"}

AppNext ==
    \/ \E id \in Ids, kind \in AppKinds, parent_id \in ParentIds, inserted \in BOOLEAN :
          create_and_add_widget(id, kind, parent_id, inserted)
    \/ \E id \in Ids : remove_widget(id)
    \/ \E command \in SetCommands, id \in Ids : set_widget(command, id)
    \/ \E widget_id \in 1..(next_widget_id - 1), press \in BOOLEAN :
          on_widget_action(widget_id, press)

AppSpec == ProxyInit /\ [][AppNext]_vars

(* The counter-based manager with the widgets that are built from a
   payload. *)
MediaKinds == {"Image", "Svg", "IconButton"}

MediaNext ==
    \E id \in Ids, kind \in MediaKinds, parent_id \in ParentIds,
       inserted \in BOOLEAN, payload \in Payloads :
        legacy_create_widget(id, kind, parent_id, inserted, payload)

MediaSpec == PollingInit /\ [][MediaNext]_vars

(* Creates as the script requests them: op_create_widget maps the kind
   name and the UI thread runs the create for the kind it was sent. *)
KindIds == {"a", "b"}

KindNext ==
    \E id \in KindIds, name \in KindNames, parent_id \in KindIds \cup {None},
       inserted \in BOOLEAN :
        legacy_create_widget(id, widget_kind(name), parent_id, inserted, "valid")

KindSpec == PollingInit /\ [][KindNext]_vars

(* Creates of the kinds that hold other widgets or fall back to another
   widget. *)
EnumKinds == {"Flex", "Container", "Grid", "IconButton"}

EnumNext ==
    \E id \in KindIds, kind \in EnumKinds, parent_id \in KindIds \cup {None},
       inserted \in BOOLEAN :
        legacy_create_widget(id, kind, parent_id, inserted, "valid")

EnumSpec == PollingInit /\ [][EnumNext]_vars

(* Ids are whatever string the script passes, the sentinel's included. *)
RootIds == {"a", ROOT}

RootNext ==
    \/ \E id \in RootIds, kind \in Kinds, parent_id \in RootIds \cup {None},
          inserted \in BOOLEAN :
          create_and_add_widget(id, kind, parent_id, inserted)
    \/ \E id \in RootIds : remove_widget(id)

RootSpec == ProxyInit /\ [][RootNext]_vars

(* An event on its way from the op to the script's listeners. *)
SerializeNext ==
    \/ escape
    \/ serialize
    \/ dispatch_parse

SerializeSpec == SerializeInit /\ [][SerializeNext]_vars

(* The command side alone.  The UI thread finishes a handler it has
   entered and the windowing event loop delivers every user event posted
   through the proxy; nothing obliges the user to act on a widget. *)
CommandNext ==
    \/ send_command
    \/ \E widget_id \in NativeHandles, press \in BOOLEAN : on_action(widget_id, press)
    \/ process_js_commands
    \/ send_event
    \/ on_command_action
    \/ drop_sender
    \/ run_ui_returns

CommandFairness ==
    /\ WF_vars(process_js_commands)
    /\ WF_vars(send_event)
    /\ WF_vars(on_command_action)

RECURSIVE ArgLists(_)
ArgLists(n) ==
    IF n = 0 THEN {<<>>}
    ELSE ArgLists(n - 1) \cup
         {Append(rest, path) : rest \in ArgLists(n - 1), path \in Paths}

StartupInit ==
    /\ RegistryInit
    /\ LegacyInit
    /\ ChannelInit
    /\ driver = "polling"
    /\ SerializerIdle
    /\ args \in {<<"appjs">> \o rest : rest \in ArgLists(MaxArgs)}
    /\ files \in SUBSET CanonicalPaths
    /\ main_pc = "args"
    /\ absolute_path = <<>>
    /\ stderr = <<>>
    /\ exit_status = <<>>
    /\ started = {}
    /\ EmitterInit
    /\ HoverInit
    /\ ColorIdle

StartupNext ==
    \/ parse_arguments
    \/ resolve_script_path
    \/ create_channels
    \/ spawn_js_thread
    \/ run_ui
    \/ \E panicked \in BOOLEAN : join_js_thread(panicked)

StartupSpec == StartupInit /\ [][StartupNext]_vars

EmitterNext ==
    \/ \E type \in ListenerTypes, callback \in Callbacks : on(type, callback)
    \/ \E n \in 1..MaxRegistrations : call_unsubscribe(n)
    \/ \E type \in ListenerTypes : off(type)
    \/ \E type \in EventTypes : dispatch(type)
    \/ \E eventJson \in EventJsons \ {"event"} : event_loop_receives(eventJson)

EmitterSpec == ProxyInit /\ [][EmitterNext]_vars

(* main is inside run_ui: the channels exist and the script thread runs. *)
ShutdownInit ==
    /\ RegistryInit
    /\ LegacyInit
    /\ ChannelInit
    /\ driver = "polling"
    /\ SerializerIdle
    /\ EmitterInit
    /\ HoverInit
    /\ ColorIdle
    /\ args = <<"appjs", "app.js">>
    /\ files = {"/cwd/app.js"}
    /\ main_pc = "run_ui"
    /\ absolute_path = <<"/cwd/app.js">>
    /\ stderr = <<>>
    /\ exit_status = <<>>
    /\ started = {"IpcChannels", "js-runtime"}

(* A script that starts nothing new once the UI is gone. *)
ShutdownNext ==
    \/ \E widget_id \in NativeHandles, press \in BOOLEAN : on_action(widget_id, press)
    \/ process_js_commands
    \/ send_event
    \/ run_ui_returns
    \/ receiver_alive /\ op_wait_for_event
    \/ receiver_alive /\ events_on
    \/ \E slot \in Slots : lock(slot)
    \/ \E slot \in Slots : blocking_recv(slot)
    \/ wait_for_event_returns
    \/ event_loop_resume
    \/ drop_sender
    \/ join_returns

(* tokio runs every blocking task it spawned, the runtime resumes the
   script when an op has completed, run_event_loop returns when nothing is
   pending, and the operating system runs the main thread. *)
ShutdownFairness ==
    /\ \A slot \in Slots : WF_vars(lock(slot))
    /\ \A slot \in Slots : WF_vars(blocking_recv(slot))
    /\ WF_vars(wait_for_event_returns)
    /\ WF_vars(event_loop_resume)
    /\ WF_vars(drop_sender)
    /\ WF_vars(join_returns)

ShutdownSpec == ShutdownInit /\ [][ShutdownNext]_vars /\ ShutdownFairness

CommandFairSpec == Init /\ [][CommandNext]_vars /\ CommandFairness

-----------------------------------------------------------------------------
(* Properties of the registry *)

Widgets == widget_manager.widgets
ChildLists == widget_manager.parent_to_children

(* The positions (parent key, index) at which an id occurs in the child lists. *)
Occurrences(m, id) ==
    {p \in UNION {{k} \X (1..Len(m.parent_to_children[k])) :
                       k \in DOMAIN m.parent_to_children} :
        m.parent_to_children[p[1]][p[2]] = id}

RecordsUnder(m, key) ==
    {id \in DOMAIN m.widgets : parent_key_of(m.widgets[id].parent_id) = key}

(* C1: every registered record's child_index is its position in its
   parent's child list, and the indices under each parent are exactly
   0..len-1. *)
C1_ChildIndexIsPosition ==
    /\ \A id \in DOMAIN Widgets :
          LET key == parent_key_of(Widgets[id].parent_id)
              idx == Widgets[id].child_index
          IN /\ key \in DOMAIN ChildLists
             /\ idx + 1 \in 1..Len(ChildLists[key])
             /\ ChildLists[key][idx + 1] = id
    /\ \A key \in DOMAIN ChildLists :
          {Widgets[id].child_index : id \in RecordsUnder(widget_manager, key)}
             = 0..(Len(ChildLists[key]) - 1)

(* C2: as long as only creates have happened, the child_index values
   handed to the widgets registered under one parent are 0, 1, .., N-1 in
   call order, and the record of the widget just created stores that value. *)
C2_AppendOnlyIndexing ==
    /\ ~removed_any =>
          \A key \in DOMAIN assigned :
             \A i \in 1..Len(assigned[key]) : assigned[key][i] = i - 1
    /\ (last.op = "create" /\ last.added) =>
          /\ last.id \in DOMAIN Widgets
          /\ Widgets[last.id].child_index = last.child_index

C2_Witness ==
    /\ ~removed_any
    /\ \E key \in DOMAIN assigned : Len(assigned[key]) >= 3

(* C3: after remove_widget_subtree(id) on a registered id, neither id nor
   any of its former descendants has a record, a child-list key or an
   entry in any child list. *)
C3_SubtreeRemoved ==
    [][(last'.op = "remove" /\ last'.found) =>
          \A d \in {last'.id} \cup
                   Closure(ChildLists, Children(ChildLists, last'.id)) :
             /\ d \notin DOMAIN widget_manager'.widgets
             /\ d \notin DOMAIN widget_manager'.parent_to_children
             /\ \A k \in DOMAIN widget_manager'.parent_to_children :
                   d \notin Range(widget_manager'.parent_to_children[k])]_vars

(* C4: removing an id that is not registered reports None and changes
   nothing in the registry. *)
C4_RemoveUnknownIsNoOp ==
    [][(last'.op = "remove" /\ last'.id \notin DOMAIN Widgets) =>
          /\ ~last'.found
          /\ widget_manager' = widget_manager
          /\ crashed' = crashed]_vars

C4_Witness ==
    /\ last.op = "remove"
    /\ ~last.found
    /\ removed_any
    /\ DOMAIN Widgets # {}

(* C5: a create whose parent_id is unknown to the registry leaves all
   registry state as it was: records, child lists and child counters. *)
C5_UnknownParentCreateIsNoOp ==
    [][(/\ last'.op = "create"
        /\ last'.parent_id # None
        /\ last'.parent_id \notin DOMAIN Widgets
        /\ last'.parent_id \notin DOMAIN legacy_manager.widgets) =>
          /\ widget_manager' = widget_manager
          /\ legacy_manager' = legacy_manager]_vars

(* C6: every id in a child list has a record, every record's parent key is
   a key of the index, and every registered id has its own child list. *)
C6_IndexConsistent ==
    /\ \A k \in DOMAIN ChildLists : Range(ChildLists[k]) \subseteq DOMAIN Widgets
    /\ \A id \in DOMAIN Widgets :
          /\ parent_key_of(Widgets[id].parent_id) \in DOMAIN ChildLists
          /\ id \in DOMAIN ChildLists

(* Following parent_id from a key reaches the root within fuel steps. *)
RECURSIVE ReachesRoot(_, _, _)
ReachesRoot(m, key, fuel) ==
    IF key = ROOT THEN TRUE
    ELSE IF fuel = 0 \/ key \notin DOMAIN m.widgets THEN FALSE
    ELSE ReachesRoot(m, parent_key_of(m.widgets[key].parent_id), fuel - 1)

(* C7: the parent chain of every registered id ends at the root, and the
   descendant walk of remove_widget_subtree always returns. *)
C7_ParentChainsEndAtRoot ==
    /\ ~crashed
    /\ \A id \in DOMAIN Widgets :
          ReachesRoot(widget_manager, id, Cardinality(DOMAIN Widgets))

(* C8: each registered id occurs exactly once across all child lists, and
   an id created while it is not registered is appended last under its
   parent with an empty child list. *)
C8_IdentityUnique ==
    [][/\ \A id \in DOMAIN widget_manager'.widgets :
             Cardinality(Occurrences(widget_manager', id)) = 1
       /\ (last'.op = "create" /\ last'.added /\ last'.id \notin DOMAIN Widgets) =>
             LET key == parent_key_of(last'.parent_id)
                 pc == widget_manager'.parent_to_children
             IN /\ pc[key][Len(pc[key])] = last'.id
                /\ pc[last'.id] = <<>>]_vars

(* C9: a create whose insertion into the rendering tree failed leaves the
   records and the child lists as they were. *)
C9_FailedInsertionRegistersNothing ==
    [][(last'.op = "create" /\ ~last'.added) =>
          widget_manager' = widget_manager]_vars

C9_Witness ==
    /\ last.op = "create"
    /\ ~last.added
    /\ last.parent_id \in DOMAIN Widgets
    /\ last.id \notin DOMAIN Widgets

-----------------------------------------------------------------------------
(* Properties of the command channel *)

IsPrefix(s, t) == Len(s) <= Len(t) /\ \A i \in 1..Len(s) : s[i] = t[i]

(* C10: commands are dispatched in the order the script sent them, each at
   most once, and while the UI thread holds the receiver every command sent
   is either dispatched or still queued. *)
C10_CommandsInOrderExactlyOnce ==
    /\ IsPrefix(dispatched, sent)
    /\ receiver_alive => dispatched \o command_queue = sent

C10_Witness ==
    /\ Len(dispatched) >= 2
    /\ command_queue # <<>>
    /\ driver = "polling"

-----------------------------------------------------------------------------
(* Properties of the event channel *)

(* The events the blocking tasks have received and not yet handed to the
   script. *)
Held == UNION {Range(EventsIn(calls[slot].value)) : slot \in DOMAIN calls}

(* C11 as stated: the events returned to the script, in the order the
   calls returned, are the events the UI thread enqueued, in the order it
   enqueued them, also with several calls outstanding at once. *)
C11_EventsReturnedInOrder ==
    IsPrefix(returned, produced)

(* C11 amended: while no two op_wait_for_event calls have been outstanding
   at once the events are returned in the order they were enqueued; in
   every case each enqueued event is returned by at most one call, and
   while the script runs every enqueued event is returned, held by one
   call or still queued. *)
C11_EventsInOrderWithOneCallOutstanding ==
    /\ ~overlapped => IsPrefix(returned, produced)
    /\ \A i, j \in 1..Len(returned) : returned[i] = returned[j] => i = j
    /\ Range(returned) \subseteq Range(produced)
    /\ Range(returned) \cap (Held \cup Range(event_queue)) = {}
    /\ Held \cap Range(event_queue) = {}
    /\ sender_alive =>
          Range(returned) \cup Held \cup Range(event_queue) = Range(produced)

C11_Witness ==
    /\ Len(returned) >= 2
    /\ ~overlapped

-----------------------------------------------------------------------------
(* Properties of the command channel under fair scheduling *)

(* C12: a command that is queued while the UI thread runs is eventually
   dispatched (or the UI thread ends) without any widget action by the
   user. *)
C12_CommandsEventuallyDispatched ==
    \A cmd \in 1..MaxCommands :
       (cmd \in Range(command_queue) /\ receiver_alive)
          ~> (cmd \in Range(dispatched) \/ ~receiver_alive)

(* C13: once the script's command sender is dropped, a receive of the
   polling UI thread never blocks; on the empty queue it returns
   Disconnected, the drain loop ends without dispatching anything and the
   UI thread goes on with the action it was handling. *)
C13_ReceiveAfterSenderDropped ==
    /\ [](ui_pc = "process_js_commands" => ENABLED process_js_commands)
    /\ [][(/\ ui_pc = "process_js_commands"
           /\ ~sender_alive
           /\ command_queue = <<>>) =>
             /\ recv_result' = "Disconnected"
             /\ dispatched' = dispatched
             /\ ui_pc' = "send_event"
             /\ receiver_alive']_vars

C13_Witness ==
    /\ recv_result = "Disconnected"
    /\ ~sender_alive
    /\ receiver_alive
    /\ ui_pc = "idle"
    /\ action_count >= 2

(* C14: with the UI thread's event sender gone and nothing buffered, the
   blocked rx.recv() returns and the op yields the disconnected sentinel as
   its value; the event loop that reads the sentinel stops: it hands
   nothing to the listeners and, once stopped, has no op_wait_for_event
   call outstanding. *)
C14_DisconnectedStopsEventLoop ==
    /\ [](~loop_running => calls["loop"].state = "idle")
    /\ [][/\ \A slot \in Slots :
               (/\ calls[slot].state = "recv"
                /\ ~receiver_alive
                /\ event_queue = <<>>
                /\ calls'[slot] # calls[slot]) =>
                  calls'[slot] = [state |-> "done", value |-> <<Disconnected>>]
          /\ (/\ calls["loop"] = [state |-> "done", value |-> <<Disconnected>>]
              /\ calls'["loop"] # calls["loop"]) =>
                /\ ~loop_running'
                /\ delivered' = delivered
                /\ returned' = returned
                /\ calls'["loop"].state = "idle"]_vars

C14_Witness ==
    /\ ~loop_running
    /\ listeners >= 1
    /\ ~receiver_alive
    /\ delivered # <<>>

(* C15: while an op_wait_for_event call is blocked waiting for an event
   (its recv has nothing to return), the mutex around the event receiver
   is free. *)
C15_MutexFreeWhileBlocked ==
    \A slot \in Slots :
       (/\ calls[slot].state = "recv"
        /\ recv(event_queue, receiver_alive).result = "Blocked") =>
          mutex = "free"

(* C16: a send on a channel whose consuming end is gone fails without
   ending the sender.  A send_command after the UI thread has ended
   returns Err and the script thread runs on; a send_event after the
   script thread has ended is dropped and on_action completes.  Neither
   changes a queue or the registry. *)
C16_FailedSendLeavesSenderRunning ==
    [][/\ (next_command' # next_command /\ ~receiver_alive) =>
             /\ send_result' = "Err"
             /\ sender_alive'
             /\ sent' = sent
             /\ command_queue' = command_queue
             /\ event_queue' = event_queue
             /\ widget_manager' = widget_manager
       /\ (/\ ui_pc = "send_event"
           /\ ui_pc' # ui_pc
           /\ pending.press
           /\ ~sender_alive) =>
             /\ ui_pc' = "idle"
             /\ receiver_alive'
             /\ produced' = produced
             /\ event_queue' = event_queue
             /\ command_queue' = command_queue
             /\ widget_manager' = widget_manager]_vars

C16_Witness ==
    /\ send_result = "Err"
    /\ sender_alive
    /\ ~receiver_alive
    /\ sent # <<>>

-----------------------------------------------------------------------------
(* Properties of the events the UI thread produces *)

(* The events enqueued by the step. *)
Enqueued == {produced'[i] : i \in (Len(produced) + 1)..Len(produced')}

(* The native handle the step's widget action was raised on. *)
Acted == IF driver = "polling" THEN pending.widget_id ELSE last'.widget_id

(* C17: every widgetAction event enqueued carries as widget_id the id of a
   record of the registry, the one whose native handle was acted on;
   an action on a native widget without a record enqueues nothing. *)
C17_EventsCarryRegisteredIds ==
    [][\A event \in Enqueued :
          event.type = "widgetAction" =>
             /\ event.widget_id \in DOMAIN Widgets
             /\ Widgets[event.widget_id].widget_id = Acted]_vars

(* The ids whose record holds the native handle. *)
HeldBy(m, widget_id) ==
    {id \in DOMAIN m.widgets : m.widgets[id].widget_id = widget_id}

(* C18: end to end under the proxy driver.  After a registered create of
   id the record of id, and no other, holds the native handle the create
   allocated; a button press on a handle held by the record of id enqueues
   exactly one click event carrying id; after a RemoveWidget of a
   registered id that returns, no record has id as its key or as its
   parent and none holds the old handle; a press on a handle no record
   holds enqueues nothing. *)
C18_CreateClickRemoveClick ==
    /\ []((last.op = "create" /\ last.added) =>
             HeldBy(widget_manager, last.widget_id) = {last.id})
    /\ [][/\ (last'.op = "action" /\ last'.added) =>
                LET ids == HeldBy(widget_manager, last'.widget_id)
                IN IF ids = {}
                   THEN produced' = produced /\ event_queue' = event_queue
                   ELSE \E id \in ids :
                           LET event == WidgetAction(Len(produced) + 1, id)
                           IN /\ produced' = Append(produced, event)
                              /\ event_queue' = Append(event_queue, event)
          /\ (last'.op = "remove" /\ last'.found /\ ~crashed') =>
                /\ last'.id \notin DOMAIN widget_manager'.widgets
                /\ \A id \in DOMAIN widget_manager'.widgets :
                      widget_manager'.widgets[id].parent_id # last'.id
                /\ HeldBy(widget_manager', last'.widget_id) = {}]_vars

C18_Witness ==
    /\ last.op = "action"
    /\ last.added
    /\ ~last.found
    /\ removed_any
    /\ DOMAIN Widgets = {}
    /\ Len(produced) = 1
    /\ steps = 4

(* C19: a SetWidgetText or SetWidgetVisible command, for a known or an
   unknown id, leaves the registry as it was, and as long as a record is
   not removed the native handle it holds stays the same. *)
C19_SetCommandsKeepRegistry ==
    [][/\ last'.op \in SetCommands => widget_manager' = widget_manager
       /\ \A id \in DOMAIN Widgets \cap DOMAIN widget_manager'.widgets :
             widget_manager'.widgets[id].widget_id = Widgets[id].widget_id]_vars

-----------------------------------------------------------------------------
(* Properties of the event serialization *)

StringValue(s) == [kind |-> "string", value |-> s]
NumberValue(tenths) == [kind |-> "number", value |-> tenths]
BoolValue(b) == [kind |-> "bool", value |-> b]

(* The members a script expects to read from the JSON text of an event. *)
Decoded(event) ==
    (<<"type">> :> StringValue(<<event.type>>)) @@
    CASE event.type = "windowResized" ->
            (<<"width">> :> NumberValue(10 * event.width)) @@
            (<<"height">> :> NumberValue(10 * event.height))
      [] event.type \in {"mouseClick", "mouseMove"} ->
            (<<"x">> :> NumberValue(event.x)) @@ (<<"y">> :> NumberValue(event.y))
      [] event.type \in {"keyPress", "keyRelease"} ->
            (<<"key">> :> StringValue(event.key)) @@
            (<<"shift">> :> BoolValue(event.modifiers.shift)) @@
            (<<"ctrl">> :> BoolValue(event.modifiers.ctrl)) @@
            (<<"alt">> :> BoolValue(event.modifiers.alt)) @@
            (<<"meta">> :> BoolValue(event.modifiers.meta))
      [] event.type = "textInput" ->
            (<<"text">> :> StringValue(event.text))
      [] event.type = "widgetAction" ->
            (<<"widgetId">> :> StringValue(event.widget_id)) @@
            (<<"action">> :> StringValue(<<event.action.kind>>)) @@
            (CASE event.action.kind \in {"textChanged", "custom"} ->
                     (<<"value">> :> StringValue(event.action.value))
               [] event.action.kind = "valueChanged" ->
                     (<<"value">> :> NumberValue(event.action.value))
               [] OTHER -> EmptyMap)
      [] event.type = "windowFocusChanged" ->
            (<<"focused">> :> BoolValue(event.focused))
      [] OTHER -> EmptyMap

(* C20: for every event the text serialize_event returns is well-formed
   JSON, and the type and every field read from it are those of the
   event. *)
C20_SerializedEventDecodes ==
    parsed # <<>> =>
       /\ parsed[1].ok
       /\ parsed[1].fields = Decoded(ui_event)

(* What a JSON reader makes of the inside of a string literal: the
   characters up to the closing quote, or no value. *)
unescape(text) == parse_chars(Append(text, Q), 1, <<>>)

(* C21: the output of escape_json_string holds no raw control character,
   every quote and backslash in it is part of an escape (reading it as
   the inside of a string literal succeeds and stops at the end), and
   unescaping it gives back the input. *)
C21_EscapeRoundTrip ==
    escaped # <<>> =>
       /\ Range(escaped[1]) \cap ControlChars = {}
       /\ unescape(escaped[1]).ok
       /\ unescape(escaped[1]).next = Len(escaped[1]) + 2
       /\ unescape(escaped[1]).value = StringField(ui_event)

-----------------------------------------------------------------------------
(* Properties of the creation of widgets built from a payload *)

(* C22: a CreateWidget with an id that has no record and a parent the
   widget can be inserted under ends with a record for that id, whatever
   the kind and the payload. *)
C22_ConstructionFailureFallsBack ==
    [][(/\ last'.op = "create"
        /\ last'.id \notin DOMAIN legacy_manager.widgets
        /\ last'.insertable) =>
          last'.id \in DOMAIN legacy_manager'.widgets]_vars

(* C23: op_create_widget maps every name outside its known set to
   Custom(name); a create of such a kind whose insertion succeeds
   registers a record for the id whose kind is that Custom(name), and the
   only creates of such a kind that register nothing are those whose
   insertion failed. *)
C23_UnknownKindFallsBackToCustom ==
    /\ [](\A name \in KindNames \ KnownNames : widget_kind(name) = Custom(name))
    /\ [][(/\ last'.op = "create"
           /\ last'.kind \in {Custom(name) : name \in KindNames \ KnownNames}) =>
             /\ last'.added = last'.insertable
             /\ last'.added =>
                   /\ last'.id \in DOMAIN legacy_manager'.widgets
                   /\ legacy_manager'.widgets[last'.id].kind = last'.kind
                   /\ legacy_manager'.widgets[last'.id].widget_id = last'.widget_id]_vars

C23_Witness ==
    /\ last.op = "create"
    /\ last.kind = Custom("gauge")
    /\ last.added
    /\ last.parent_id \in DOMAIN legacy_manager.widgets
    /\ legacy_manager.widgets[last.id].kind = Custom("gauge")


(* C24: enqueueing never blocks the producer.  Whatever the number of
   undelivered messages and wherever the consumer is, the send step of a
   producer that has a message to send can be taken, and when the consuming
   end exists it completes by putting the message last in the queue. *)
C24_SendNeverBlocks ==
    /\ []((sender_alive /\ next_command <= MaxCommands) => ENABLED send_command)
    /\ [](ui_pc = "send_event" => ENABLED send_event)
    /\ [][(next_command' # next_command /\ receiver_alive) =>
             command_queue' = Append(command_queue, next_command)]_vars
    /\ [][(ui_pc = "send_event" /\ ui_pc' = "idle" /\ pending.press /\ sender_alive) =>
             /\ Len(event_queue') = Len(event_queue) + 1
             /\ event_queue'[Len(event_queue')].widget_id = Debug(pending.widget_id)]_vars

(* Two commands and an event are undelivered, the consumer of the commands
   is inside a handler, and the last send completed. *)
C24_Witness ==
    /\ Len(command_queue) >= 2
    /\ Len(event_queue) >= 1
    /\ send_result = "Ok"
    /\ ui_pc # "idle"


(* C26: register_widget(id, info) stores info under id, puts id last in the
   child list of info's parent key, a list that starts empty when the key
   had none, and leaves the siblings that were there in their order; id has
   a child list of its own afterwards, which is empty when id had none
   before, and no other child list changes. *)
C26_RegisterAppendsLast ==
    [][(last'.op = "create" /\ last'.added) =>
         LET id == last'.id
             parent_key == parent_key_of(last'.parent_id)
             before == widget_manager.parent_to_children
             after == widget_manager'.parent_to_children
             siblings == IF parent_key \in DOMAIN before THEN before[parent_key] ELSE <<>>
         IN /\ id \in DOMAIN widget_manager'.widgets
            /\ widget_manager'.widgets[id] =
                  WidgetInfo(last'.widget_id, last'.kind, last'.parent_id, last'.child_index)
            /\ \A other \in DOMAIN widget_manager.widgets \ {id} :
                  /\ other \in DOMAIN widget_manager'.widgets
                  /\ widget_manager'.widgets[other] = widget_manager.widgets[other]
            /\ parent_key \in DOMAIN after
            /\ after[parent_key] = Append(siblings, id)
            /\ id \in DOMAIN after
            /\ (id \notin DOMAIN before /\ id # parent_key) => after[id] = <<>>
            /\ DOMAIN after = DOMAIN before \cup {parent_key, id}
            /\ \A key \in DOMAIN before \ {parent_key} : after[key] = before[key]]_vars

(* A widget without a child list of its own was registered under a
   registered parent that already had a child, and came last. *)
C26_Witness ==
    /\ last.op = "create"
    /\ last.added
    /\ Len(widget_manager.parent_to_children[parent_key_of(last.parent_id)]) >= 2
    /\ widget_manager.parent_to_children[last.id] = <<>>
    /\ last.parent_id # None


-----------------------------------------------------------------------------
(* Start-up *)

(* The script argument is missing, or it leads to nothing that exists. *)
Unresolvable ==
    \/ Len(args) < 2
    \/ args[2] = ""
    \/ Canonical[args[2]] \notin files

(* C25: when the script argument is missing or its path cannot be resolved,
   main sets up nothing (no IPC channel, no script thread, no UI), never goes
   past the path resolution, and ends with a diagnostic on stderr and a
   non-zero exit status; until it has ended its next step can be taken. *)
C25_BadStartupExitsEarly ==
    Unresolvable =>
       /\ started = {}
       /\ main_pc \in {"args", "canonicalize", "exited"}
       /\ main_pc = "canonicalize" => Len(args) >= 2
       /\ main_pc # "exited" => ENABLED StartupNext
       /\ main_pc = "exited" =>
             /\ exit_status # <<>>
             /\ exit_status[1] # 0
             /\ stderr # <<>>
             /\ Len(args) < 2 => stderr = Usage
             /\ Len(args) >= 2 => stderr = <<CannotResolve(args[2])>>

(* main ended on a script path that names a file which does not exist. *)
C25_Witness ==
    /\ Len(args) >= 2
    /\ args[2] \in DOMAIN Canonical
    /\ Canonical[args[2]] \notin files
    /\ main_pc = "exited"
    /\ exit_status = <<1>>


-----------------------------------------------------------------------------
(* Child index allocation and removal frame *)

(* C27: next_child_index(parent_key) is the length of the parent's child
   list, 0 for a key without a list, and that is the number of widgets
   currently registered under the parent, whatever creates (failed ones
   included) and removals came before. *)
C27_NextChildIndexCountsChildren ==
    \A key \in {ROOT} \cup Ids :
       /\ next_child_index(widget_manager, key) =
             (IF key \in DOMAIN ChildLists THEN Len(ChildLists[key]) ELSE 0)
       /\ next_child_index(widget_manager, key) =
             Cardinality(RecordsUnder(widget_manager, key))


(* The subtree of id: id and every registered widget whose chain of parents
   passes through id. *)
RECURSIVE Under(_, _, _)
Under(m, id, fuel) ==
    IF fuel = 0 THEN {id}
    ELSE LET S == Under(m, id, fuel - 1)
         IN S \cup {x \in DOMAIN m.widgets : m.widgets[x].parent_id \in S}

Subtree(m, id) == Under(m, id, Cardinality(DOMAIN m.widgets))

(* C28: a remove_widget_subtree(id) that finds id and returns changes nothing outside
   id's subtree except the child_index of id's remaining siblings: every
   other record stays, with its native handle, kind and parent; every other
   child list keeps content and order; the list id was in keeps its other
   entries in their order. *)
C28_RemoveFrame ==
    [][(last'.op = "remove" /\ last'.found /\ ~crashed') =>
         LET id == last'.id
             gone == Subtree(widget_manager, id)
             parent_key == parent_key_of(Widgets[id].parent_id)
             before == widget_manager.parent_to_children
             after == widget_manager'.parent_to_children
         IN /\ \A other \in DOMAIN Widgets \ gone :
                  /\ other \in DOMAIN widget_manager'.widgets
                  /\ widget_manager'.widgets[other].widget_id = Widgets[other].widget_id
                  /\ widget_manager'.widgets[other].kind = Widgets[other].kind
                  /\ widget_manager'.widgets[other].parent_id = Widgets[other].parent_id
                  /\ parent_key_of(Widgets[other].parent_id) # parent_key =>
                        widget_manager'.widgets[other].child_index = Widgets[other].child_index
            /\ \A key \in DOMAIN before \ gone :
                  /\ key \in DOMAIN after
                  /\ after[key] = IF key = parent_key THEN Retain(before[key], id)
                                  ELSE before[key]]_vars


-----------------------------------------------------------------------------
(* Event emitter *)

Registered(type) == IF type \in DOMAIN _listeners THEN _listeners[type] ELSE <<>>

(* C29: for every event, _dispatch invokes all the listeners registered for
   the event's type, in registration order, and then all the "*" listeners;
   a listener that throws is logged and neither keeps the others from being
   invoked nor stops the event loop. *)
C29_DispatchInvokesAllListeners ==
    [][emitted'.op = "dispatch" =>
         /\ invoked' = Registered(emitted'.type) \o Registered("*")
         /\ console_error' = Cardinality({i \in 1..Len(invoked') : Body[invoked'[i]] = "throws"})
         /\ _eventLoopRunning']_vars

(* C30: the function events.on(type, callback) returned removes one
   registration of callback under type and nothing else; when callback was
   registered once it is not invoked for later events of the type; calling
   the function again changes nothing. *)
C30_UnsubscribeRemovesOneRegistration ==
    [][/\ (emitted'.op = "unsubscribe" /\ emitted'.n \notin called) =>
            LET type == unsubscribes[emitted'.n].type
                callback == unsubscribes[emitted'.n].callback
                at == indexOf(Registered(type), callback)
            IN /\ at > 0 => _listeners' = [_listeners EXCEPT ![type] = splice(@, at)]
               /\ at = 0 => _listeners' = _listeners
               /\ Cardinality({i \in 1..Len(Registered(type)) : Registered(type)[i] = callback}) = 1 =>
                     callback \notin Range(_listeners'[type])
       /\ (emitted'.op = "unsubscribe" /\ emitted'.n \in called) =>
            _listeners' = _listeners]_vars


(* C31: at most one activation of the event loop awaits op_wait_for_event,
   however many listeners are registered; the flag tells whether one does;
   a registration made while none runs starts one and a registration made
   while one runs starts none. *)
C31_OneEventLoop ==
    /\ [](loops <= 1 /\ (_eventLoopRunning <=> loops = 1))
    /\ [][emitted'.op = "on" /\ emitted'.n # emitted.n => loops' = 1]_vars
    /\ [][(emitted'.op = "on" /\ loops = 1) => loops' = 1]_vars

(* The second listener was registered and one loop runs. *)
C31_Witness ==
    /\ emitted.op = "on"
    /\ emitted.n = 2
    /\ loops = 1
    /\ _eventLoopRunning


-----------------------------------------------------------------------------
(* Disconnection *)

(* C32: on both queues a receive hands out the oldest queued message as
   long as there is one, also after the producing end is gone; the
   disconnected condition is reported only on an empty queue whose producer
   is gone, and by then every message that was enqueued has been received:
   every command sent has been dispatched, every event produced has been
   taken by a call. *)
C32_DisconnectedAfterDrain ==
    /\ [][(ui_pc = "process_js_commands" /\ ui_pc' # ui_pc /\ recv_result' = "Disconnected") =>
             /\ command_queue = <<>>
             /\ ~sender_alive
             /\ dispatched' = sent]_vars
    /\ [][(/\ ui_pc = "process_js_commands"
           /\ dispatched' # dispatched \/ ui_pc' # ui_pc
           /\ command_queue # <<>>) =>
             /\ recv_result' = "Ok"
             /\ dispatched' = Append(dispatched, Head(command_queue))
             /\ command_queue' = Tail(command_queue)]_vars
    /\ [][\A slot \in Slots :
             (calls[slot].state = "recv" /\ calls'[slot].state = "done") =>
                IF event_queue # <<>>
                THEN /\ calls'[slot].value = <<Head(event_queue)>>
                     /\ event_queue' = Tail(event_queue)
                ELSE /\ calls'[slot].value = <<Disconnected>>
                     /\ ~receiver_alive
                     /\ Range(produced) = Range(returned) \cup Held]_vars

(* The script's sender is gone, the polling UI thread has already received
   a command in its drain loop and another one is still queued. *)
C32_Witness ==
    /\ ~sender_alive
    /\ command_queue # <<>>
    /\ dispatched # <<>>
    /\ ui_pc = "process_js_commands"
    /\ recv_result = "Ok"


(* C33: once the UI run loop has returned, every op_wait_for_event call
   that is blocked in the receive is released with the disconnected
   sentinel, the script thread ends, main's join returns and the process
   exits with status 0. *)
C33_ShutdownAfterUiReturns ==
    /\ [][\A slot \in Slots :
             (/\ calls[slot].state = "recv"
              /\ calls'[slot].state = "done"
              /\ event_queue = <<>>) => calls'[slot].value = <<Disconnected>>]_vars
    /\ \A slot \in Slots :
          (calls[slot].state = "recv" /\ ~receiver_alive) ~> calls[slot].state = "idle"
    /\ ~receiver_alive ~> (~sender_alive /\ main_pc = "exited" /\ exit_status = <<0>>)

(* The process has shut down after an event loop that was running when the
   UI returned was stopped by the sentinel. *)
C33_Witness ==
    /\ main_pc = "exited"
    /\ ~sender_alive
    /\ listeners >= 1
    /\ ~loop_running
    /\ delivered # <<>>


-----------------------------------------------------------------------------
(* Recorded kinds *)

(* C34: the kind in the record of a widget is the kind named in the
   CreateWidget command that registered it. *)
C34_RecordedKindIsCommandKind ==
    [][(last'.op = "create" /\ last'.added) =>
         /\ last'.id \in DOMAIN legacy_manager'.widgets
         /\ legacy_manager'.widgets[last'.id].kind = last'.kind]_vars


-----------------------------------------------------------------------------
(* Root sentinel *)

(* C35: the key "__root__" is in the parent/child index in every reachable
   state, whatever ids are registered and removed; the index of a fresh
   manager has that key alone, with an empty list, and no records. *)
C35_RootKeyPresent ==
    /\ new.widgets = EmptyMap
    /\ new.parent_to_children = MapInsert(EmptyMap, ROOT, <<>>)
    /\ ROOT \in DOMAIN ChildLists


-----------------------------------------------------------------------------
(* Reverse lookup *)

(* C36: no two registered ids hold the same native handle, so the scan of
   on_action finds at most one id for a handle, whatever the order in which
   it visits the records; the id an action was resolved to is that one. *)
C36_HandleLookupIsFunction ==
    /\ \A id1, id2 \in DOMAIN Widgets :
          Widgets[id1].widget_id = Widgets[id2].widget_id => id1 = id2
    /\ \A widget_id \in 1..next_widget_id :
          Cardinality(js_ids(widget_manager, widget_id)) <= 1
    /\ (last.op = "action" /\ last.found) =>
          js_ids(widget_manager, last.widget_id) = {last.id}

(* An action was resolved to an id while three widgets were registered, one
   of them under an id that had been created before. *)
C36_Witness ==
    /\ last.op = "action"
    /\ last.found
    /\ Cardinality(DOMAIN Widgets) >= 2
    /\ next_widget_id >= 4


-----------------------------------------------------------------------------
(* Polling driver: commands before the event *)

(* C37: in the polling driver every on_action call first dispatches the
   pending commands, oldest first, until the queue is seen empty, and only
   then enqueues the event of the action that triggered it: the call leaves
   the loop with everything sent so far dispatched in the order sent,
   dispatches nothing between the loop and the event, and enqueues the event
   only from the step that follows the loop. *)
C37_CommandsBeforeEvent ==
    /\ []((driver = "polling" /\ receiver_alive) =>
            sent = dispatched \o command_queue)
    /\ [][(driver = "polling" /\ dispatched' # dispatched) =>
            /\ ui_pc = "process_js_commands"
            /\ ui_pc' = "process_js_commands"
            /\ command_queue # <<>>
            /\ dispatched' = Append(dispatched, Head(command_queue))]_vars
    /\ [][(ui_pc = "process_js_commands" /\ ui_pc' # ui_pc) =>
            /\ ui_pc' = "send_event"
            /\ command_queue = <<>>
            /\ dispatched' = sent
            /\ produced' = produced]_vars
    /\ [][(driver = "polling" /\ produced' # produced) =>
            /\ ui_pc = "send_event"
            /\ ui_pc' = "idle"
            /\ pending.press
            /\ dispatched' = dispatched
            /\ produced' = Append(produced,
                   WidgetAction(Len(produced) + 1, Debug(pending.widget_id)))]_vars

(* An on_action call has dispatched two commands and enqueued its event,
   and a command sent after the loop had ended is still queued. *)
C37_Witness ==
    /\ driver = "polling"
    /\ ui_pc = "idle"
    /\ action_count = 1
    /\ Len(produced) = 1
    /\ Len(dispatched) = 2
    /\ command_queue # <<>>


-----------------------------------------------------------------------------
(* Hoverable *)

HoverNext ==
    \E event \in UpdateEvents, hovered \in BOOLEAN : hover_update(event, hovered)

HoverSpec == ProxyInit /\ [][HoverNext]_vars

Effective(w) == w.self_hovered \/ w.child_hovered

(* C38: a Hoverable submits a HoverAction exactly when self_hovered OR
   child_hovered changes value, carrying the new value: the actions submitted
   alternate between hovered=true and hovered=false starting with true, and
   an update that leaves the disjunction as it was submits nothing. *)
C38_HoverActionsAlternate ==
    /\ [](/\ hoverable.effective_hovered = Effective(hoverable)
          /\ \A i \in 1..Len(submitted) : submitted[i].hovered = (i % 2 = 1)
          /\ hoverable.effective_hovered = (Len(submitted) % 2 = 1))
    /\ [][Effective(hoverable') # Effective(hoverable) =>
            submitted' = Append(submitted, HoverAction(Effective(hoverable')))]_vars
    /\ [][Effective(hoverable') = Effective(hoverable) =>
            submitted' = submitted]_vars

(* The pointer entered the widget, moved onto its child and left: updates
   that changed a flag without changing the disjunction submitted nothing,
   and the three changes of the disjunction were submitted. *)
C38_Witness ==
    /\ Len(submitted) = 3
    /\ updates >= 5
    /\ hoverable.child_hovered
    /\ ~hoverable.self_hovered


-----------------------------------------------------------------------------
(* ColorValue::parse *)

ColorInit ==
    /\ RegistryInit /\ LegacyInit /\ ChannelInit /\ SerializerIdle /\ StartupIdle
    /\ EmitterInit /\ HoverInit
    /\ driver = "proxy"
    /\ color_string \in ColorStrings
    /\ color = Unparsed
    /\ deserialized = Unparsed

ColorNext ==
    \/ parse_color
    \/ deserialize_color

ColorSpec == ColorInit /\ [][ColorNext]_vars

(* The remainder of a "#" string is exactly 6 or 8 hex digits. *)
ValidHex(hex) ==
    /\ Len(hex) \in {6, 8}
    /\ \A i \in 1..Len(hex) : hex[i] \in DOMAIN to_digit /\ to_digit[hex[i]] < 16

IsRgb(s) ==
    \/ starts_with(s, <<"r", "g", "b", "(">>)
    \/ starts_with(s, <<"r", "g", "b", "a", "(">>)

(* C39: ColorValue::parse returns a value or None for every string and never
   panics; a string starting with "#" whose remainder is not exactly 6 or 8
   hex digits yields None, and a name that is not one of the known ones
   yields Named of the lower-cased name. *)
C39_ParseTotal ==
    color # Unparsed =>
        LET s == trim(color_string)
        IN /\ color.tag \in {"None", "Rgba", "Named"}
           /\ (starts_with(s, <<"#">>) /\ ~ValidHex(Tail(s))) => color = Option_None
           /\ (/\ ~starts_with(s, <<"#">>)
               /\ ~IsRgb(s)
               /\ Join(to_lowercase(s)) \notin DOMAIN NamedColors)
                  => color = Named(to_lowercase(s))

====
